---- MODULE Spec2Model ----
(***************************************************************************)
(* A model of the image-caption plugin in src/src/main.ts.  The file holds *)
(* three revisions of the plugin class, one after the other:               *)
(*   revision 1, lines    1 ..  467  (parseImageData, childList observer)  *)
(*   revision 2, lines  469 ..  919  (revision 1 plus live-tree grouping)  *)
(*   revision 3, lines  920 .. 1350  (parseAltAttributes, attribute path)  *)
(* Strings are TLA+ strings; the JavaScript string methods the plugin uses *)
(* are the operators of the first section.                                 *)
(* SpecParse applies the two parsers to bounded alt texts.  Spec runs the  *)
(* plugin over one embed: rev = 1 is the reconciler of revisions 1 and 2   *)
(* (with one embed the grouping step of revision 2 returns at line 547),   *)
(* rev = 3 the reconciler of revision 3; dropped counts the records of a   *)
(* batch that an exception in the callback left unhandled.  SpecGrid runs  *)
(* the code block processor over bounded blocks, and SpecGroup the         *)
(* live-tree grouping of revision 2 over bounded element trees.  SpecLoad  *)
(* interleaves onload with the host's calls of the registered processors.  *)
(***************************************************************************)
EXTENDS Integers, Sequences, FiniteSets, TLC

VARIABLES call, rev, settings, host, dom, tasks, records, settled, steps,
          dropped

vars == <<call, rev, settings, host, dom, tasks, records, settled, steps,
          dropped>>

(***************************************************************************)
(* JavaScript strings                                                      *)
(***************************************************************************)

\* s[i-1], a one-character string
At(s, i) == SubSeq(s, i, i)

\* s.substring(i-1)
From(s, i) == SubSeq(s, i, Len(s))

\* p occurs in s at position i
OccursAt(s, i, p) ==
  /\ i >= 1
  /\ i + Len(p) - 1 <= Len(s)
  /\ SubSeq(s, i, i + Len(p) - 1) = p

\* the first position >= i where p occurs in s, 0 when there is none
RECURSIVE IndexFrom(_, _, _)
IndexFrom(s, p, i) ==
  IF i + Len(p) - 1 > Len(s) THEN 0
  ELSE IF SubSeq(s, i, i + Len(p) - 1) = p THEN i
  ELSE IndexFrom(s, p, i + 1)

\* s.indexOf(p) + 1: the first position of p in s, 0 when there is none
IndexOf(s, p) == IndexFrom(s, p, 1)

\* s.includes(p)
Includes(s, p) == IndexOf(s, p) > 0

\* s.replace(p, r) with p a pattern without metacharacters and no g flag:
\* only the first occurrence is replaced
ReplaceFirst(s, p, r) ==
  LET i == IndexOf(s, p)
  IN  IF i = 0 THEN s
      ELSE SubSeq(s, 1, i - 1) \o r \o From(s, i + Len(p))

\* the characters \s matches, among those the model's texts use
IsSpace(c) == c \in {" ", "\t", "\n"}

RECURSIVE TrimStart(_)
TrimStart(s) ==
  IF Len(s) > 0 /\ IsSpace(At(s, 1)) THEN TrimStart(From(s, 2)) ELSE s

RECURSIVE TrimEnd(_)
TrimEnd(s) ==
  IF Len(s) > 0 /\ IsSpace(At(s, Len(s)))
  THEN TrimEnd(SubSeq(s, 1, Len(s) - 1))
  ELSE s

\* s.trim()
Trim(s) == TrimEnd(TrimStart(s))

\* the first position >= i of a character \s matches, 0 when there is none
RECURSIVE SpaceFrom(_, _)
SpaceFrom(s, i) ==
  IF i > Len(s) THEN 0
  ELSE IF IsSpace(At(s, i)) THEN i
  ELSE SpaceFrom(s, i + 1)

\* s.replace(/\s+/g, " ")
RECURSIVE CollapseSpaces(_)
CollapseSpaces(s) ==
  LET i == SpaceFrom(s, 1)
  IN  IF i = 0 THEN s
      ELSE SubSeq(s, 1, i - 1) \o " " \o CollapseSpaces(TrimStart(From(s, i)))

\* s.split(sep) for a one-character separator: never empty, "" gives <<"">>
RECURSIVE Split(_, _)
Split(s, sep) ==
  LET i == IndexOf(s, sep)
  IN  IF i = 0 THEN <<s>>
      ELSE <<SubSeq(s, 1, i - 1)>> \o Split(From(s, i + 1), sep)

\* parts.join(sep)
RECURSIVE Join(_, _)
Join(parts, sep) ==
  IF Len(parts) = 0 THEN ""
  ELSE IF Len(parts) = 1 THEN parts[1]
       ELSE parts[1] \o sep \o Join(Tail(parts), sep)

\* parts.map(part => part.trim())
MapTrim(parts) == [i \in 1..Len(parts) |-> Trim(parts[i])]

UpperLetters == "ABCDEFGHIJKLMNOPQRSTUVWXYZ"
LowerLetters == "abcdefghijklmnopqrstuvwxyz"
Digits == "0123456789"

CharsOf(s) == {At(s, i) : i \in 1..Len(s)}

LowerAlnumChars == CharsOf(LowerLetters) \cup CharsOf(Digits)
WordChars == CharsOf(UpperLetters) \cup LowerAlnumChars \cup {"_"}

LowerMap == [c \in CharsOf(UpperLetters) |-> At(LowerLetters, IndexOf(UpperLetters, c))]

LowerChar(c) == IF c \in DOMAIN LowerMap THEN LowerMap[c] ELSE c

\* the first position >= i of a character of s that is in set, 0 when none
RECURSIVE CharFrom(_, _, _)
CharFrom(s, set, i) ==
  IF i > Len(s) THEN 0
  ELSE IF At(s, i) \in set THEN i
  ELSE CharFrom(s, set, i + 1)

\* the first position >= i of a character of s that is not in set, 0 when none
RECURSIVE NonCharFrom(_, _, _)
NonCharFrom(s, set, i) ==
  IF i > Len(s) THEN 0
  ELSE IF At(s, i) \notin set THEN i
  ELSE NonCharFrom(s, set, i + 1)

\* s.toLowerCase()
RECURSIVE ToLowerCase(_)
ToLowerCase(s) ==
  LET i == CharFrom(s, DOMAIN LowerMap, 1)
  IN  IF i = 0 THEN s
      ELSE SubSeq(s, 1, i - 1) \o LowerChar(At(s, i)) \o ToLowerCase(From(s, i + 1))

\* the characters \w matches
IsWordChar(c) == c \in WordChars

\* a JavaScript value that is undefined (or null) is <<>>, a defined one <<v>>
Undefined == <<>>
Some(v) == <<v>>

\* the truthiness of an optional string: defined and not ""
Truthy(opt) == opt # Undefined /\ opt[1] # ""

\* const x = v; Body(x): v is computed once, whatever the number of times
\* Body reads it
With(v, Body(_)) == CHOOSE r \in {Body(x) : x \in {v}} : TRUE

(***************************************************************************)
(* Slug Generator                                                          *)
(***************************************************************************)

Last(parts) == parts[Len(parts)]

\* the position of the "." that /\.[^.]+$/ matches: the last dot, when at
\* least one character follows it; 0 when the pattern does not match
ExtensionDot(s) ==
  LET dots == {i \in 1..Len(s) : At(s, i) = "."}
      last == CHOOSE i \in dots : \A j \in dots : j <= i
  IN  IF dots = {} THEN 0 ELSE IF last = Len(s) THEN 0 ELSE last

\* s.replace(/[^a-z0-9]/g, "-")
RECURSIVE DashNonAlnum(_)
DashNonAlnum(s) ==
  LET i == NonCharFrom(s, LowerAlnumChars, 1)
  IN  IF i = 0 THEN s
      ELSE SubSeq(s, 1, i - 1) \o "-" \o DashNonAlnum(From(s, i + 1))

\* s.replace(/-+/g, "-")
RECURSIVE CollapseDashes(_)
CollapseDashes(s) ==
  LET i == IndexOf(s, "--")
  IN  IF i = 0 THEN s
      ELSE SubSeq(s, 1, i - 1) \o CollapseDashes(From(s, i + 1))

\* s.replace(/^-|-$/g, "")
StripEdgeDashes(s) ==
  LET a == IF Len(s) > 0 /\ At(s, 1) = "-" THEN From(s, 2) ELSE s
  IN  IF Len(a) > 0 /\ At(a, Len(a)) = "-" THEN SubSeq(a, 1, Len(a) - 1) ELSE a

generateSlug(src) ==
  LET popped == Last(Split(src, "/"))
      filename == IF popped = "" THEN src ELSE popped
      dot == ExtensionDot(filename)
      nameWithoutExt == IF dot = 0 THEN filename ELSE SubSeq(filename, 1, dot - 1)
  IN  StripEdgeDashes(CollapseDashes(DashNonAlnum(ToLowerCase(nameWithoutExt))))

(***************************************************************************)
(* Caption Resolver: the steps at the end of parseImageData                *)
(***************************************************************************)

filenamePlaceholder == "%"
filenameExtensionPlaceholder == "%.%"

\* new RegExp(p) throws a SyntaxError when p is no regular expression; of
\* JavaScript's syntax the model checks that the groups are balanced
RECURSIVE ParenDepth(_, _)
ParenDepth(p, depth) ==
  IF depth < 0 THEN depth
  ELSE IF Len(p) = 0 THEN depth
  ELSE ParenDepth(From(p, 2),
                  IF At(p, 1) = "(" THEN depth + 1
                  ELSE IF At(p, 1) = ")" THEN depth - 1 ELSE depth)

RegExpThrows(p) == ParenDepth(p, 0) # 0

\* s.match(new RegExp(p))?.[1] for the patterns  [^] literal (.*) [$]
\* and texts without line breaks: Undefined when there is no match,
\* (or the pattern has no group), otherwise capture group 1, the text after
\* the first occurrence of the literal
RegExpGroup1(p, s) ==
  LET anchored == Len(p) > 0 /\ At(p, 1) = "^"
      a == IF anchored THEN From(p, 2) ELSE p
      b == IF Len(a) > 0 /\ At(a, Len(a)) = "$" THEN SubSeq(a, 1, Len(a) - 1) ELSE a
      g == IndexOf(b, "(.*)")
      lit == SubSeq(b, 1, g - 1)
      at == IF lit = "" THEN 1
            ELSE IF anchored THEN (IF OccursAt(s, 1, lit) THEN 1 ELSE 0)
            ELSE IndexOf(s, lit)
  IN  IF g = 0 \/ at = 0 THEN Undefined ELSE Some(From(s, at + Len(lit)))

\* lines 211-218: the configured pattern, applied inside try/catch
applyCaptionRegex(captionRegex, caption) ==
  IF captionRegex # "" /\ caption # ""
  THEN IF RegExpThrows(captionRegex)
       THEN caption
       ELSE LET m == RegExpGroup1(captionRegex, caption)
            IN  IF m = Undefined THEN "" ELSE m[1]
  ELSE caption

IsPathSep(c) == c \in {"/", "\\"}

\* all of s from position i on is  \.\w+
IsDotWordTail(s, i) ==
  /\ i + 1 <= Len(s)
  /\ At(s, i) = "."
  /\ \A k \in (i + 1)..Len(s) : IsWordChar(At(s, k))

\* matchFilename without its first alternative: the extension is kept
matchFilenameKeepsExtension(src) ==
  LET starts == {i \in 1..Len(src) : \A k \in i..Len(src) : ~IsPathSep(At(src, k))}
  IN  IF starts = {} THEN Undefined
      ELSE Some(From(src, CHOOSE i \in starts : \A k \in starts : i <= k))

\* src.match(/[^\\/]+(?=\.\w+$)|[^\\/]+$/)?.[0]: at the leftmost position
\* where an alternative matches, the first alternative (the longest run of
\* non-separators that is followed by an extension ending the text) before
\* the second (a run of non-separators ending the text)
matchFilename(src) ==
  LET RunOk(i, j) == \A k \in i..j : ~IsPathSep(At(src, k))
      First(i) == {j \in i..Len(src) : RunOk(i, j) /\ IsDotWordTail(src, j + 1)}
      Second(i) == RunOk(i, Len(src))
      starts == {i \in 1..Len(src) : First(i) # {} \/ Second(i)}
      i0 == CHOOSE i \in starts : \A k \in starts : i <= k
      j0 == CHOOSE j \in First(i0) : \A k \in First(i0) : k <= j
  IN  IF starts = {} THEN Undefined
      ELSE IF First(i0) # {} THEN Some(SubSeq(src, i0, j0))
      ELSE Some(From(src, i0))

\* src.match(/[^\\/]+$/)?.[0]
matchFilenameExtension(src) ==
  LET starts == {i \in 1..Len(src) : \A k \in i..Len(src) : ~IsPathSep(At(src, k))}
  IN  IF starts = {} THEN Undefined
      ELSE Some(From(src, CHOOSE i \in starts : \A k \in starts : i <= k))

OrEmpty(opt) == IF opt = Undefined THEN "" ELSE opt[1]

\* lines 220-228
resolvePlaceholder(caption, src) ==
  IF caption = filenamePlaceholder THEN OrEmpty(matchFilename(src))
  ELSE IF caption = filenameExtensionPlaceholder THEN OrEmpty(matchFilenameExtension(src))
  ELSE IF caption = "\\" \o filenamePlaceholder THEN filenamePlaceholder
  ELSE caption

\* caption.replace(/<<(.*?)>>/g, (_, linktext) => "[[" + linktext + "]]")
RECURSIVE rewriteLinks(_)
rewriteLinks(s) ==
  LET open == IndexOf(s, "<<")
      rest == From(s, open + 2)
      close == IndexOf(rest, ">>")
      inner == SubSeq(rest, 1, close - 1)
  IN  IF open = 0 THEN s
      ELSE IF close = 0 \/ Includes(inner, "\n")
           THEN SubSeq(s, 1, open) \o rewriteLinks(From(s, open + 1))
           ELSE SubSeq(s, 1, open - 1) \o "[[" \o inner \o "]]"
                  \o rewriteLinks(From(rest, close + 2))

(***************************************************************************)
(* Alt-Text Parser, revisions 1 and 2: parseImageData                      *)
(***************************************************************************)

KindTokens == {"imagenote", "image", "imageGrid", "figure", "video"}

\* value.split(",").map(c => c.trim())
splitClasses(value) == MapTrim(Split(value, ","))

\* lines 131-144: the result object before any segment is read
defaultImageData(src) ==
  [dataNom |-> "image", caption |-> "", width |-> Undefined,
   printwidth |-> Undefined, col |-> Undefined, printcol |-> Undefined,
   class |-> <<>>, poster |-> Undefined, imgX |-> Undefined,
   imgY |-> Undefined, imgW |-> Undefined, id |-> generateSlug(src)]

\* the switch of lines 168-202: the key of a segment, lower-cased, to the
\* field of the result it sets
ImageDataKeys ==
  ("caption" :> "caption") @@ ("width" :> "width") @@ ("printwidth" :> "printwidth")
    @@ ("col" :> "col") @@ ("printcol" :> "printcol") @@ ("class" :> "class")
    @@ ("poster" :> "poster") @@ ("imgx" :> "imgX") @@ ("imgy" :> "imgY")
    @@ ("imgw" :> "imgW") @@ ("id" :> "id")

ImageDataKeyNames == DOMAIN ImageDataKeys

\* result[field] = value, as the case of the switch for that field stores it:
\* class as the list of its comma-separated names, the fields that start as
\* a string as the string, the fields that start undefined as a defined value
setField(result, field, value) ==
  [f \in DOMAIN result |->
     IF f # field THEN result[f]
     ELSE IF f = "class" THEN splitClasses(value)
     ELSE IF f \in {"caption", "dataNom", "id"} THEN value
     ELSE Some(value)]

\* const [key, ...valueParts] = part.split(":"); key.toLowerCase()
segmentKey(part) == ToLowerCase(Split(part, ":")[1])

\* valueParts.join(":").trim()
segmentValue(part) == Trim(From(part, IndexOf(part, ":") + 1))

\* applyImageDataPart with a default case that takes the segment as caption
applyImageDataPartDefaultCaption(result, part) ==
  IF ~Includes(part, ":") THEN result
  ELSE LET key == segmentKey(part)
       IN  IF key \in ImageDataKeyNames
           THEN setField(result, ImageDataKeys[key], segmentValue(part))
           ELSE [result EXCEPT !.caption = part]

\* lines 164-203: one segment of the new syntax
applyImageDataPart(result, part) ==
  IF ~Includes(part, ":") THEN result
  ELSE LET key == segmentKey(part)
       IN  IF key \in ImageDataKeyNames
           THEN setField(result, ImageDataKeys[key], segmentValue(part))
           ELSE result

\* the loop of lines 161-204 over parts[i-1 ..]
RECURSIVE applyImageDataParts(_, _, _)
applyImageDataParts(result, parts, i) ==
  IF i > Len(parts) THEN result
  ELSE applyImageDataParts(applyImageDataPart(result, parts[i]), parts, i + 1)

\* lines 146-151: the host's default alt text, the source path itself
isDefaultAlt(altText, src) ==
  altText = src \/ ReplaceFirst(altText, " > ", "#") = src

\* lines 153-208: type detection and the two syntaxes
parseImageSyntax(altText, src) ==
  LET parts == MapTrim(Split(altText, "|"))
      result == defaultImageData(src)
  IN  IF Len(parts) > 1 /\ parts[1] \in KindTokens
      THEN applyImageDataParts([result EXCEPT !.dataNom = parts[1]], parts, 2)
      ELSE [result EXCEPT !.caption = parts[1]]

\* lines 210-233: regular expression, placeholders, link rewriting
resolveCaption(result, src, captionRegex) ==
  [result EXCEPT !.caption =
     rewriteLinks(resolvePlaceholder(applyCaptionRegex(captionRegex, @), src))]

\* parseImageData(img) for an element with these alt and src attributes
\* (a missing attribute reads as ""), under settings.captionRegex
parseImageData(altText, src, captionRegex) ==
  IF isDefaultAlt(altText, src)
  THEN defaultImageData(src)
  ELSE resolveCaption(parseImageSyntax(altText, src), src, captionRegex)

(***************************************************************************)
(* Alt-Text Parser, revision 3: parseAltAttributes                         *)
(***************************************************************************)

\* lines 1048-1061
defaultAltAttributes ==
  [caption |-> "", class |-> <<>>, width |-> Undefined, col |-> Undefined,
   printCol |-> Undefined, printWidth |-> Undefined, printRow |-> Undefined,
   printHeight |-> Undefined, printX |-> Undefined, printY |-> Undefined,
   imgW |-> Undefined, dataNom |-> "image"]

\* the switch of lines 1073-1118: the key of a segment, lower-cased, to the
\* field of the result it sets
AltAttributeKeys ==
  ("caption" :> "caption") @@ ("class" :> "class") @@ ("width" :> "width")
    @@ ("col" :> "col")
    @@ ("print-col" :> "printCol") @@ ("printcol" :> "printCol")
    @@ ("print-width" :> "printWidth") @@ ("printwidth" :> "printWidth")
    @@ ("print-row" :> "printRow") @@ ("printrow" :> "printRow")
    @@ ("print-height" :> "printHeight") @@ ("printheight" :> "printHeight")
    @@ ("img-x" :> "printX") @@ ("imgx" :> "printX")
    @@ ("img-y" :> "printY") @@ ("imgy" :> "printY")
    @@ ("img-w" :> "imgW") @@ ("imgw" :> "imgW")
    @@ ("type" :> "dataNom") @@ ("datanom" :> "dataNom")

AltAttributeKeyNames == DOMAIN AltAttributeKeys

\* lines 1069-1121: one segment
applyAltAttributesPart(result, part) ==
  IF Includes(part, ":")
  THEN LET key == segmentKey(part)
       IN  IF key \in AltAttributeKeyNames
           THEN setField(result, AltAttributeKeys[key], segmentValue(part))
           ELSE result
  ELSE IF part # "" /\ result.caption = ""
       THEN [result EXCEPT !.caption = part]
       ELSE result

\* the loop of lines 1068-1122
RECURSIVE applyAltAttributesParts(_, _, _)
applyAltAttributesParts(result, parts, i) ==
  IF i > Len(parts) THEN result
  ELSE applyAltAttributesParts(applyAltAttributesPart(result, parts[i]), parts, i + 1)

parseAltAttributes(altText) ==
  IF altText = "" THEN defaultAltAttributes
  ELSE applyAltAttributesParts(defaultAltAttributes,
                               MapTrim(Split(Trim(CollapseSpaces(altText)), "|")), 1)

(***************************************************************************)
(* The parsers applied to bounded inputs                                   *)
(***************************************************************************)

\* the longest alt text the parser specification draws, in segments
MaxSegs == 3

AltSegments ==
  {"video", "Video", "type:video", "type:bogus", "caption:Xy", "width:Y",
   "foo:bar", "Xy", "%", "a.png", "n > h", "<<T>>"}

RECURSIVE AltTextsOf(_)
AltTextsOf(n) ==
  IF n = 1 THEN AltSegments
  ELSE {a \o "|" \o seg : a \in AltTextsOf(n - 1), seg \in AltSegments}

AltTexts == {""} \cup UNION {AltTextsOf(n) : n \in 1..MaxSegs}

SrcTexts == {"a.png", "n#h", "d/%.png", "u/v.png?1"}

\* settings.captionRegex: not configured, not a regular expression, and one
\* that extracts what follows an X
CaptionRegexes == {"", "(", "X(.*)"}

NoCall == [fn |-> "none", alt |-> "", src |-> "", out |-> Undefined]

\* the parts of the state the parser specification leaves alone
IdleDocument ==
  /\ rev = 1
  /\ host = [render |-> "inline"]
  /\ dom = <<>>
  /\ tasks = <<>>
  /\ records = <<>>
  /\ settled = <<>>
  /\ steps = 0
  /\ dropped = 0

\* every alt text with every src; the pattern step does not read src, so a
\* configured pattern is drawn with one src only
ParseInit ==
  /\ call \in {[fn |-> "none", alt |-> a, src |-> u, out |-> Undefined] :
                 a \in AltTexts, u \in SrcTexts}
  /\ settings \in {[captionRegex |-> r] : r \in CaptionRegexes}
  /\ settings.captionRegex # "" => call.src = "a.png"
  /\ IdleDocument

CallParseImageData ==
  /\ call.fn = "none"
  /\ call' = [call EXCEPT !.fn = "parseImageData",
                          !.out = parseImageData(call.alt, call.src, settings.captionRegex)]
  /\ UNCHANGED <<rev, settings, host, dom, tasks, records, settled, steps, dropped>>

CallParseAltAttributes ==
  /\ call.fn = "none"
  /\ call' = [call EXCEPT !.fn = "parseAltAttributes",
                          !.out = parseAltAttributes(call.alt)]
  /\ UNCHANGED <<rev, settings, host, dom, tasks, records, settled, steps, dropped>>

ParseNext == CallParseImageData \/ CallParseAltAttributes

SpecParse == ParseInit /\ [][ParseNext]_vars

Parsed == call.fn # "none"

(***************************************************************************)
(* Claims about the parsers (specification SpecParse)                      *)
(***************************************************************************)

\* the alt text is the host's default: the source path, or the source path
\* with its anchor separator written " > "
SentinelInput == call.alt = call.src \/ ReplaceFirst(call.alt, " > ", "#") = call.src

Unauthored(out) ==
  /\ out.caption = ""
  /\ out.dataNom = "image"
  /\ out.width = Undefined
  /\ out.col = Undefined
  /\ out.class = <<>>

\* C1: whenever alt equals src, or alt with its first " > " replaced by "#"
\* equals src, the parser returns the unauthored descriptor (kind image,
\* caption "", nothing else set).
C1_SentinelUnauthored ==
  Parsed /\ SentinelInput => Unauthored(call.out)

\* C1 restricted to revisions 1 and 2, whose parseImageData has the check
C1_SentinelUnauthoredImageData ==
  call.fn = "parseImageData" /\ SentinelInput => Unauthored(call.out)

C1_Reached ==
  call.fn = "parseAltAttributes" /\ call.alt = "n > h" /\ call.src = "n#h"

RawParts == Split(call.alt, "|")

\* the alt text has the form type:T|caption:X|width:Y
WellFormedTyped ==
  /\ Len(RawParts) = 3
  /\ OccursAt(RawParts[1], 1, "type:")
  /\ OccursAt(RawParts[2], 1, "caption:")
  /\ OccursAt(RawParts[3], 1, "width:")

\* C6: for alt "type:T|caption:X|width:Y" the kind is T when T is a
\* recognized kind and image otherwise, the caption is X and the width Y.
C6_TypedForm ==
  Parsed /\ WellFormedTyped /\ settings.captionRegex = "" =>
    LET T == From(RawParts[1], Len("type:") + 1)
        X == From(RawParts[2], Len("caption:") + 1)
        Y == From(RawParts[3], Len("width:") + 1)
    IN  /\ call.out.dataNom = (IF T \in KindTokens THEN T ELSE "image")
        /\ call.out.caption = X
        /\ call.out.width = Some(Y)

C6_Reached ==
  Parsed /\ WellFormedTyped /\ settings.captionRegex = ""

\* the value of the last segment of parts with this key, "" when none has it
RECURSIVE LastValueOf(_, _, _)
LastValueOf(parts, key, i) ==
  IF i = 0 THEN ""
  ELSE IF OccursAt(parts[i], 1, key \o ":")
       THEN From(parts[i], Len(key) + 2)
       ELSE LastValueOf(parts, key, i - 1)

\* C7: with at least two segments and a first segment that is exactly a
\* kind token, the kind is that token and the other segments are read as
\* key:value pairs; in every other case the first segment is the caption and
\* the kind is image.  (Stated for authored alt texts, with no caption
\* pattern configured and a first segment that is no placeholder.)
C7_TypeDetection ==
  Parsed /\ ~SentinelInput /\ settings.captionRegex = ""
         /\ RawParts[1] \notin {"%", "%.%"} =>
    IF Len(RawParts) >= 2 /\ RawParts[1] \in KindTokens
    THEN /\ call.out.dataNom = RawParts[1]
         /\ call.out.caption = LastValueOf(RawParts, "caption", Len(RawParts))
    ELSE /\ call.out.dataNom = "image"
         /\ call.out.caption = RawParts[1]

\* C7 restricted to revisions 1 and 2
C7_TypeDetectionImageData ==
  call.fn = "parseImageData" => C7_TypeDetection

C7_Reached ==
  call.fn = "parseAltAttributes" /\ call.alt = "video|caption:Xy"

\* the parser of a call, applied to another alt text
ParseAgain(altText) ==
  IF call.fn = "parseImageData"
  THEN parseImageData(altText, call.src, settings.captionRegex)
  ELSE parseAltAttributes(altText)

\* the alias table of the parser of a call
KnownKeys ==
  IF call.fn = "parseImageData" THEN ImageDataKeyNames ELSE AltAttributeKeyNames

\* a segment that is key:value with a key the parser does not know
UnknownKeySegment(seg) ==
  /\ Includes(seg, ":")
  /\ ToLowerCase(Split(Trim(seg), ":")[1]) \notin KnownKeys

\* the segments with segment i removed, joined again
WithoutSegment(parts, i) ==
  Join(SubSeq(parts, 1, i - 1) \o SubSeq(parts, i + 1, Len(parts)), "|")

\* C8 as stated: a key:value segment with an unknown key changes nothing,
\* wherever it stands, the first or only segment included.
C8_UnknownKeyAnywhere ==
  Parsed =>
    \A i \in 1..Len(RawParts) :
      UnknownKeySegment(RawParts[i]) =>
        call.out = ParseAgain(WithoutSegment(RawParts, i))

\* removing segment i leaves the decisions taken before the key:value loop
\* alone: it is not the first segment, a leading kind token keeps a second
\* segment after it, and the shorter text is not the unauthored sentinel
KeepsSyntax(parts, i, shorter) ==
  /\ i >= 2
  /\ parts[1] \in KindTokens => Len(parts) >= 3
  /\ shorter # call.src
  /\ ReplaceFirst(shorter, " > ", "#") # call.src

UnknownKeyIgnoredAt(parts, i, shorter) ==
  UnknownKeySegment(parts[i]) /\ KeepsSyntax(parts, i, shorter) =>
    call.out = ParseAgain(shorter)

\* C8 (amended): a key:value segment with an unknown key that is not the
\* first segment changes nothing, provided the text without it still has two
\* segments when it starts with a kind token and is not the source path.
C8_UnknownKeyIgnored ==
  Parsed /\ Includes(call.alt, ":") =>
    \A i \in 1..Len(RawParts) :
      UnknownKeyIgnoredAt(RawParts, i, WithoutSegment(RawParts, i))

C8_Reached ==
  /\ call.fn = "parseImageData"
  /\ call.alt = "video|foo:bar|caption:Xy"
  /\ UnknownKeySegment(RawParts[2])
  /\ KeepsSyntax(RawParts, 2, "video|caption:Xy")
  /\ call.out.caption = "Xy"

\* the caption before the Caption Resolver: what type detection and the
\* key:value loop of parseImageData produced
ParsedCaption == parseImageSyntax(call.alt, call.src).caption

ResolverRuns == call.fn = "parseImageData" /\ ~SentinelInput

\* C9: with a configured pattern and a non-empty parsed caption, a pattern
\* that is no regular expression gives the empty caption (the raw caption is
\* not propagated); a valid one gives capture group 1 on a match and the
\* empty caption otherwise.
C9_PatternExtraction ==
  ResolverRuns /\ settings.captionRegex # "" /\ ParsedCaption # "" =>
    IF RegExpThrows(settings.captionRegex)
    THEN call.out.caption = ""
    ELSE call.out.caption = OrEmpty(RegExpGroup1(settings.captionRegex, ParsedCaption))

\* C9 for valid patterns alone
C9_ValidPatternExtraction ==
  ResolverRuns /\ settings.captionRegex # "" /\ ParsedCaption # ""
               /\ ~RegExpThrows(settings.captionRegex) =>
    call.out.caption = OrEmpty(RegExpGroup1(settings.captionRegex, ParsedCaption))

C9_Reached ==
  /\ call.fn = "parseImageData"
  /\ settings.captionRegex = "("
  /\ call.alt = "Xy"
  /\ call.out.caption = "Xy"

\* the text after the last path separator
LastPathSegment(src) ==
  LET seps == {i \in 1..Len(src) : IsPathSep(At(src, i))}
  IN  IF seps = {} THEN src
      ELSE From(src, 1 + CHOOSE i \in seps : \A j \in seps : j <= i)

\* name without its extension: a final dot followed by word characters only,
\* after a name that is not empty
StripExtension(name) ==
  LET dots == {i \in 2..(Len(name) - 1) :
                 /\ At(name, i) = "."
                 /\ \A k \in (i + 1)..Len(name) : IsWordChar(At(name, k))}
  IN  IF dots = {} THEN name
      ELSE SubSeq(name, 1, (CHOOSE i \in dots : TRUE) - 1)

PlaceholderCase ==
  ResolverRuns /\ settings.captionRegex = "" /\ ParsedCaption = filenamePlaceholder

HasAngleLink(s) ==
  \E i \in 1..Len(s) :
    /\ OccursAt(s, i, "<<")
    /\ \E j \in (i + 2)..Len(s) :
         /\ OccursAt(s, j, ">>")
         /\ ~Includes(SubSeq(s, i + 2, j - 1), "\n")

\* C11: the resolved caption holds no <<T>> any more (each is written
\* [[T]]), and the resolved caption, written to the alt attribute and
\* parsed again, resolves to itself.
C11_LinksRewrittenOnce ==
  Parsed =>
    /\ ~HasAngleLink(call.out.caption)
    /\ call.out.caption # "" =>
         ParseAgain(call.out.caption).caption = call.out.caption

(***************************************************************************)
(* The document                                                            *)
(*                                                                         *)
(* dom[e] is the element the host rendered for one media reference: the    *)
(* span of an internal embed, or the paragraph of an external image.       *)
(*   alt, src, width  its attributes (Undefined: absent)                   *)
(*   isEmbed          it carries the classes internal-embed, image-embed   *)
(*   img              the media element: its attributes, the container it  *)
(*                    is in (parent = 0: dom[e] itself) and whether it is  *)
(*                    in that container's div.video                        *)
(*   nodes            the synthesized containers, children of dom[e], in   *)
(*                    document order                                       *)
(*   next             the identity of the next element created             *)
(* An element reference is the identity nid of a container, 0 for null.    *)
(***************************************************************************)

Embeds == {"e1"}

\* what MarkdownRenderer.renderMarkdown leaves in the div it is given
RenderOutcomes == {"inline", "emptyParagraph", "noParagraph", "noNodes"}

\* a childList record whose target is the embed or an element inside it
InnerRecord == [type |-> "childList", target |-> "inner", e |-> "none"]

\* a childList record whose target is an ancestor of every embed
AncestorRecord == [type |-> "childList", target |-> "ancestor", e |-> "none"]

\* an attributes record for the alt of the embed ("embed") or of its media
\* element ("img")
AltRecord(e, target) == [type |-> "attributes", target |-> target, e |-> e]

\* n childList records of the plugin's own writes
InnerRecords(n) == [i \in 1..n |-> InnerRecord]

\* outerEl.createEl(tag) before its attributes are set
Container(nid, tag) ==
  [nid |-> nid, tag |-> tag, cls |-> <<>>, dataNom |-> Undefined,
   id |-> Undefined, dataSrc |-> Undefined, style |-> Undefined,
   div |-> Undefined, cap |-> Undefined]

\* the position in em.nodes of the container nid, 0 when it is not in the tree
PositionOf(em, nid) ==
  LET at == {i \in 1..Len(em.nodes) : em.nodes[i].nid = nid}
  IN  IF at = {} THEN 0 ELSE CHOOSE i \in at : TRUE

\* the container of em at the first of the positions at, 0 when at is empty
FirstContainer(em, at) ==
  IF at = {} THEN 0
  ELSE em.nodes[CHOOSE i \in at : \A j \in at : i <= j].nid

IsFigure(c) == c.tag = "figure"
HasFigcaption(c) == c.cap # Undefined /\ c.cap[1].tag = "figcaption"

\* embed.querySelector("figure"), embed.querySelector("figcaption")
querySelectorFigure(em) ==
  FirstContainer(em, {i \in 1..Len(em.nodes) : IsFigure(em.nodes[i])})
querySelectorFigcaption(em) ==
  FirstContainer(em, {i \in 1..Len(em.nodes) : HasFigcaption(em.nodes[i])})

\* img.parentElement.nodeName
parentNodeName(em) ==
  IF em.img.inDiv THEN "DIV"
  ELSE IF em.img.parent = 0 THEN (IF em.isEmbed THEN "SPAN" ELSE "P")
  ELSE IF em.nodes[PositionOf(em, em.img.parent)].tag = "figure" THEN "FIGURE"
  ELSE "SPAN"

\* classList.add(c)
addClass(cls, c) ==
  IF c \in {cls[i] : i \in 1..Len(cls)} THEN cls ELSE Append(cls, c)

\* names.forEach(c => container.addClass(c))
RECURSIVE addClasses(_, _)
addClasses(cls, names) ==
  IF names = <<>> THEN cls
  ELSE addClasses(addClass(cls, Head(names)), Tail(names))

\* classList.add(c) throws for a name that is empty or holds white space
InvalidToken(c) == c = "" \/ SpaceFrom(c, 1) # 0

ClassThrows(names) == \E i \in 1..Len(names) : InvalidToken(names[i])

\* the names the loop adds before it throws: all of them when none is invalid
AddedNames(names) ==
  LET bad == {i \in 1..Len(names) : InvalidToken(names[i])}
  IN  IF bad = {} THEN names
      ELSE SubSeq(names, 1, (CHOOSE i \in bad : \A j \in bad : i <= j) - 1)

\* if (value) style.push(`--name: ${value}`)
styleEntry(name, opt) ==
  IF Truthy(opt) THEN <<"--" \o name \o ": " \o opt[1]>> ELSE <<>>

\* lines 319-328 and 372-381
figureStyle(parsedData) ==
  styleEntry("width", parsedData.width)
    \o styleEntry("print-width", parsedData.printwidth)
    \o styleEntry("col", parsedData.col)
    \o styleEntry("print-col", parsedData.printcol)
    \o styleEntry("img-x", parsedData.imgX)
    \o styleEntry("img-y", parsedData.imgY)
    \o styleEntry("img-w", parsedData.imgW)

\* lines 330-332: the style attribute of a new container
styleAttribute(style) ==
  IF Len(style) > 0 THEN Some(Join(style, "; ")) ELSE Undefined

\* the characters of a video identifier, [a-zA-Z0-9_-]
VideoIdChars == WordChars \cup {"-"}

\* the first match of /(?:p1|p2|...)(chars+)/ in url: its group 1
RECURSIVE matchAfterPrefix(_, _, _, _)
matchAfterPrefix(url, prefixes, chars, i) ==
  IF i > Len(url) THEN Undefined
  ELSE LET hits == {k \in 1..Len(prefixes) :
                      /\ OccursAt(url, i, prefixes[k])
                      /\ i + Len(prefixes[k]) <= Len(url)
                      /\ At(url, i + Len(prefixes[k])) \in chars}
       IN  IF hits = {} THEN matchAfterPrefix(url, prefixes, chars, i + 1)
           ELSE LET k == CHOOSE h \in hits : \A g \in hits : h <= g
                    from == i + Len(prefixes[k])
                    stop == NonCharFrom(url, chars, from)
                IN  Some(SubSeq(url, from, IF stop = 0 THEN Len(url) ELSE stop - 1))

\* lines 418-428: the lazy-play fragment for a YouTube url
createYouTubeEmbed(url) ==
  LET match == matchAfterPrefix(url, <<"youtube.com/watch?v=", "youtu.be/",
                                       "youtube.com/embed/">>, VideoIdChars, 1)
  IN  IF match = Undefined THEN Undefined
      ELSE Some([tag |-> "youtube-embed",
                 dataSrc |-> "https://www.youtube.com/embed/" \o match[1]
                               \o "?autoplay=1&rel=0"])

\* lines 430-440: the lazy-play fragment for a Vimeo url
createVimeoEmbed(url) ==
  LET match == matchAfterPrefix(url, <<"vimeo.com/", "player.vimeo.com/video/">>,
                                CharsOf(Digits), 1)
  IN  IF match = Undefined THEN Undefined
      ELSE Some([tag |-> "vimeo-embed",
                 dataSrc |-> "https://player.vimeo.com/video/" \o match[1]
                               \o "?autoplay=1&rel=0"])

\* lines 408-416
createVideoContent(url) ==
  IF Includes(url, "yout") THEN createYouTubeEmbed(url)
  ELSE IF Includes(url, "vimeo") THEN createVimeoEmbed(url)
  ELSE Undefined

(***************************************************************************)
(* Figure Synthesizer and Embed Reconciler, revisions 1 and 2              *)
(*                                                                         *)
(* A handler runs to its first await in one step.  What it returns:        *)
(*   em     the embed after the synchronous part                           *)
(*   spawn  the continuations left waiting for renderMarkdown              *)
(*   recs   the mutation records its writes queue                          *)
(* A continuation is a record                                              *)
(*   op       what it does to the caption element once rendered            *)
(*   nid      the container it holds a reference to                        *)
(*   caption  the markdown it renders                                      *)
(*   then     what the caller does after it: "none", "width" (lines 75-79, *)
(*            with the width read before the await) or "styles" (line 996, *)
(*            on the figure target, with the style of the descriptor)      *)
(***************************************************************************)

Continuation(op, nid, caption) ==
  [op |-> op, nid |-> nid, caption |-> caption, then |-> "none",
   width |-> "", target |-> 0, style |-> Undefined]

\* lines 283-287
setImageAlt(img, caption) ==
  [img EXCEPT !.alt = IF caption # "" THEN Some(caption) ELSE Undefined]

\* the synthesizer threw in the loop over the class names: the container is
\* in the tree as it was then, the media element has its new alt text and has
\* not moved, and the promise of the handler is rejected
insertThrew(em, container, img, recs) ==
  [em |-> [em EXCEPT !.img = img, !.nodes = Append(@, container), !.next = @ + 1],
   spawn |-> <<>>,
   recs |-> recs]

\* lines 289-309: the margin-note container
insertImagenote(em, parsedData) ==
  LET nid == em.next
      classed ==
        [Container(nid, "span") EXCEPT
           !.cls = addClasses(<<"imagenote">>, AddedNames(parsedData.class)),
           !.id = Some(parsedData.id),
           !.dataSrc = Some(em.img.src)]
      container ==
        [classed EXCEPT
           !.cap = IF parsedData.caption # ""
                   THEN Some([tag |-> "span", children |-> <<>>])
                   ELSE Undefined]
  IN  IF ClassThrows(parsedData.class)
      THEN insertThrew(em, classed, setImageAlt(em.img, parsedData.caption),
                       InnerRecords(1))
      ELSE
      [em |-> [em EXCEPT
                 !.img = [setImageAlt(em.img, parsedData.caption) EXCEPT
                            !.parent = nid, !.inDiv = FALSE],
                 !.nodes = Append(@, container),
                 !.next = nid + 1],
       spawn |-> IF parsedData.caption # ""
                 THEN <<Continuation("replaceChildren", nid, parsedData.caption)>>
                 ELSE <<>>,
       recs |-> InnerRecords(IF parsedData.caption # "" THEN 4 ELSE 3)]

\* lines 310-361: the video container; the media element stays where it is
\* when a lazy-play fragment takes its place
insertVideofigure(em, parsedData) ==
  LET nid == em.next
      videoContent == createVideoContent(em.img.src)
      classed ==
        [Container(nid, "figure") EXCEPT
           !.cls = addClasses(<<"videofigure">>, AddedNames(parsedData.class)),
           !.dataSrc = Some(em.img.src)]
      container ==
        [classed EXCEPT
           !.style = styleAttribute(figureStyle(parsedData)),
           !.div = Some([style |-> IF Truthy(parsedData.poster)
                                   THEN Some("background-image: url("
                                               \o parsedData.poster[1] \o ")")
                                   ELSE Undefined,
                         fragment |-> videoContent])]
      img == setImageAlt(em.img, parsedData.caption)
  IN  IF ClassThrows(parsedData.class)
      THEN insertThrew(em, classed, img, InnerRecords(1))
      ELSE
      [em |-> [em EXCEPT
                 !.img = IF videoContent # Undefined THEN img
                         ELSE [img EXCEPT !.parent = nid, !.inDiv = TRUE],
                 !.nodes = Append(@, container),
                 !.next = nid + 1],
       spawn |-> IF parsedData.caption # ""
                 THEN <<Continuation("createFigcaption", nid, parsedData.caption)>>
                 ELSE <<>>,
       recs |-> InnerRecords(IF videoContent # Undefined THEN 3 ELSE 4)]

\* lines 362-405: the standard figure
insertFigure(em, parsedData) ==
  LET nid == em.next
      classed ==
        [Container(nid, "figure") EXCEPT
           !.cls = addClasses(<<"figure">>, AddedNames(parsedData.class)),
           !.dataNom = Some(parsedData.dataNom),
           !.id = Some(parsedData.id)]
      container ==
        [classed EXCEPT !.style = styleAttribute(figureStyle(parsedData))]
      img == setImageAlt(em.img, parsedData.caption)
  IN  IF ClassThrows(parsedData.class)
      THEN insertThrew(em, classed, img, InnerRecords(1))
      ELSE
      [em |-> [em EXCEPT
                 !.img = [img EXCEPT
                            !.poster = IF Truthy(parsedData.poster) /\ img.tag = "video"
                                       THEN parsedData.poster ELSE @,
                            !.parent = nid, !.inDiv = FALSE],
                 !.nodes = Append(@, container),
                 !.next = nid + 1],
       spawn |-> IF parsedData.caption # ""
                 THEN <<Continuation("createFigcaption", nid, parsedData.caption)>>
                 ELSE <<>>,
       recs |-> InnerRecords(3)]

\* lines 275-406, to the await of renderMarkdown
insertFigureWithCaption(em, parsedData) ==
  IF parsedData.dataNom = "imagenote" THEN insertImagenote(em, parsedData)
  ELSE IF parsedData.dataNom = "video" THEN insertVideofigure(em, parsedData)
  ELSE insertFigure(em, parsedData)

\* lines 75-79
setImageWidth(em, width) ==
  [em EXCEPT !.img.width = IF width # "" THEN Some(width) ELSE Undefined]

\* lines 59-60: the media element back under the embed, the figure removed
unwrap(em, figure) ==
  [em EXCEPT !.img.parent = 0, !.img.inDiv = FALSE,
             !.nodes = SelectSeq(@, LAMBDA c : c.nid # figure)]

\* the continuations of a callee, with what its caller does after the await
ThenWidth(spawn, width) ==
  [i \in 1..Len(spawn) |-> [spawn[i] EXCEPT !.then = "width", !.width = width]]

ThenStyles(spawn, target, style) ==
  [i \in 1..Len(spawn) |->
     [spawn[i] EXCEPT !.then = "styles", !.target = target, !.style = style]]

\* lines 37-80: the observer's callback for one embed
reconcileEmbed(em, captionRegex) ==
  With(parseImageData(OrEmpty(em.alt), em.src, captionRegex), LAMBDA parsedData :
  With(IF parsedData.caption # ""
       THEN [em EXCEPT !.alt = Some(parsedData.caption)] ELSE em, LAMBDA em1 :
    LET width == OrEmpty(em.width)
        figure == querySelectorFigure(em1)
        figCaption == querySelectorFigcaption(em1)
    IN  IF figure # 0 \/ parentNodeName(em1) = "FIGURE"
        THEN IF figCaption # 0 /\ parsedData.caption # ""
             THEN [em |-> em1,
                   spawn |-> ThenWidth(<<Continuation("replaceChildren", figCaption,
                                                      parsedData.caption)>>, width),
                   recs |-> <<>>]
             ELSE IF parsedData.caption = ""
             THEN [em |-> setImageWidth(unwrap(em1, figure), width),
                   spawn |-> <<>>,
                   recs |-> InnerRecords(IF figure # 0 THEN 3 ELSE 2)]
             ELSE [em |-> setImageWidth(em1, width), spawn |-> <<>>, recs |-> <<>>]
        ELSE IF parsedData.caption # "" /\ parsedData.caption # em1.src
             THEN With(insertFigureWithCaption(em1, parsedData), LAMBDA inserted :
                    [inserted EXCEPT !.spawn = ThenWidth(@, width)])
             ELSE [em |-> setImageWidth(em1, width), spawn |-> <<>>, recs |-> <<>>]))

\* lines 255-271: the post-processor's callback for one media element
postProcessImage(em, captionRegex) ==
  With(parseImageData(OrEmpty(em.img.alt), em.img.src, captionRegex), LAMBDA parsedData :
    IF /\ parentNodeName(em) # "FIGURE"
       /\ parsedData.caption # ""
       /\ parsedData.caption # em.img.src
    THEN insertFigureWithCaption(em, parsedData)
    ELSE [em |-> em, spawn |-> <<>>, recs |-> <<>>])

\* lines 455-467 with the ?? of the caller: the nodes the caption element
\* receives
renderedChildren(outcome, caption) ==
  IF outcome = "inline" THEN <<[node |-> "inline", of |-> caption]>>
  ELSE IF outcome = "emptyParagraph" THEN <<>>
  ELSE <<[node |-> "#text", of |-> caption]>>

(***************************************************************************)
(* Figure Synthesizer and Embed Reconciler, revision 3                     *)
(***************************************************************************)

\* lines 1129-1165
figureStyles(parsedData) ==
  styleEntry("width", parsedData.width)
    \o styleEntry("col", parsedData.col)
    \o styleEntry("print-col", parsedData.printCol)
    \o styleEntry("print-width", parsedData.printWidth)
    \o styleEntry("print-row", parsedData.printRow)
    \o styleEntry("print-height", parsedData.printHeight)
    \o styleEntry("print-x", parsedData.printX)
    \o styleEntry("print-y", parsedData.printY)
    \o styleEntry("img-w", parsedData.imgW)

\* lines 1167-1173: the style attribute is set, or removed when no property
\* is left; style is what styleAttribute gives for the descriptor
updateFigureStyles(em, figure, style) ==
  LET pos == PositionOf(em, figure)
  IN  IF pos = 0 THEN em ELSE [em EXCEPT !.nodes[pos].style = style]

\* lines 1176-1207, to the await of renderMarkdown
insertFigureWithCaptionR3(em, e, parsedData) ==
  LET nid == em.next
      classed ==
        [Container(nid, "figure") EXCEPT
           !.cls = addClasses(<<"figure">>, AddedNames(parsedData.class))]
      container ==
        [classed EXCEPT
           !.style = styleAttribute(figureStyles(parsedData)),
           !.cap = IF parsedData.caption # ""
                   THEN Some([tag |-> "figcaption", children |-> <<>>])
                   ELSE Undefined]
      altRecs == IF parsedData.caption # "" \/ em.img.alt # Undefined
                 THEN <<AltRecord(e, "img")>> ELSE <<>>
  IN  IF ClassThrows(parsedData.class)
      THEN insertThrew(em, classed, setImageAlt(em.img, parsedData.caption),
                       altRecs \o InnerRecords(1))
      ELSE
      [em |-> [em EXCEPT
                 !.img = [setImageAlt(em.img, parsedData.caption) EXCEPT
                            !.parent = nid, !.inDiv = FALSE],
                 !.nodes = Append(@, container),
                 !.next = nid + 1],
       spawn |-> IF parsedData.caption # ""
                 THEN <<Continuation("updateFigcaption", nid, parsedData.caption)>>
                 ELSE <<>>,
       recs |-> altRecs \o InnerRecords(IF parsedData.caption # "" THEN 4 ELSE 3)]

\* lines 972-1001: processChildListChanges for one embed
processEmbed(em, e) ==
  With(parseAltAttributes(OrEmpty(em.alt)), LAMBDA parsedAlt :
  With(IF parsedAlt.caption # ""
       THEN [em EXCEPT !.alt = Some(parsedAlt.caption)] ELSE em, LAMBDA em1 :
    LET altRecs == IF parsedAlt.caption # "" THEN <<AltRecord(e, "embed")>> ELSE <<>>
        figure == querySelectorFigure(em1)
        figCaption == querySelectorFigcaption(em1)
        targetFigure == IF figure # 0 THEN figure ELSE em1.img.parent
        style == styleAttribute(figureStyles(parsedAlt))
    IN  IF figure # 0 \/ parentNodeName(em1) = "FIGURE"
        THEN IF figCaption # 0 /\ parsedAlt.caption # ""
             THEN [em |-> em1,
                   spawn |-> ThenStyles(<<Continuation("updateFigcaption", figCaption,
                                                       parsedAlt.caption)>>,
                                        targetFigure, style),
                   recs |-> altRecs]
             ELSE [em |-> updateFigureStyles(em1, targetFigure, style),
                   spawn |-> <<>>, recs |-> altRecs]
        ELSE IF parsedAlt.caption # "" /\ parsedAlt.caption # em1.src
             THEN With(insertFigureWithCaptionR3(em1, e, parsedAlt), LAMBDA inserted :
                    [inserted EXCEPT !.recs = altRecs \o @])
             ELSE [em |-> em1, spawn |-> <<>>, recs |-> altRecs]))

\* img.closest("figure")
closestFigure(em) ==
  IF em.img.parent # 0 /\ IsFigure(em.nodes[PositionOf(em, em.img.parent)])
  THEN em.img.parent ELSE 0

\* lines 1007-1025: the alt of an embed changed.  threw: classList.add
\* threw at line 1018, after the class list was reset and the names before
\* the invalid one were added, and before the styles are updated
processEmbedAlt(em) ==
  With(parseAltAttributes(OrEmpty(em.alt)), LAMBDA parsedAlt :
    LET parentFigure == closestFigure(em)
        pos == PositionOf(em, parentFigure)
        em1 == IF Len(parsedAlt.class) > 0
               THEN [em EXCEPT !.nodes[pos].cls =
                       addClasses(<<"figure">>, AddedNames(parsedAlt.class))]
               ELSE em
    IN  IF em.isEmbed /\ parentFigure # 0
        THEN IF ClassThrows(parsedAlt.class)
             THEN [em |-> em1, threw |-> TRUE]
             ELSE [em |-> updateFigureStyles(em1, parentFigure,
                                             styleAttribute(figureStyles(parsedAlt))),
                   threw |-> FALSE]
        ELSE [em |-> em, threw |-> FALSE])

\* lines 1028-1043: the timer set when the alt of a media element changed,
\* to its await
imageAltTimer(em) ==
  With(parseAltAttributes(OrEmpty(em.img.alt)), LAMBDA parsedData :
    LET parent == em.img.parent
        pos == PositionOf(em, parent)
        style == styleAttribute(figureStyles(parsedData))
    IN  IF parentNodeName(em) = "FIGURE"
        THEN IF HasFigcaption(em.nodes[pos]) /\ parsedData.caption # ""
             THEN [em |-> em,
                   spawn |-> ThenStyles(<<Continuation("updateFigcaption", parent,
                                                       parsedData.caption)>>,
                                        parent, style),
                   recs |-> <<>>]
             ELSE [em |-> updateFigureStyles(em, parent, style),
                   spawn |-> <<>>, recs |-> <<>>]
        ELSE [em |-> em, spawn |-> <<>>, recs |-> <<>>])

\* lines 1306-1314: the post-processor's callback for one media element
postProcessImageR3(em, e) ==
  With(parseAltAttributes(OrEmpty(em.img.alt)), LAMBDA parsedData :
    IF /\ parentNodeName(em) # "FIGURE"
       /\ parsedData.caption # ""
       /\ parsedData.caption # em.img.src
    THEN insertFigureWithCaptionR3(em, e, parsedData)
    ELSE [em |-> em, spawn |-> <<>>, recs |-> <<>>])

\* lines 1318-1337: the nodes renderMarkdown returns, as updateFigcaption
\* hands them to the caption element
updatedChildren(outcome, caption) ==
  IF outcome = "inline" THEN <<[node |-> "inline", of |-> caption]>>
  ELSE IF outcome = "emptyParagraph" THEN <<>>
  ELSE IF outcome = "noParagraph" THEN <<[node |-> "block", of |-> caption]>>
  ELSE <<[node |-> "#text", of |-> caption]>>

(***************************************************************************)
(* The plugin in a document: the observer's callback, the continuations,   *)
(* the post-processor, and what the host does to an embed                  *)
(*                                                                         *)
(* tasks[i] is a continuation, or a timer (op = "timer"), with             *)
(*   e      the embed it belongs to                                        *)
(*   pass   it ends a pass of the reconciler over e                        *)
(*   fresh  the host has not changed e since its handler started           *)
(* settled[e]: a pass over e that started after the host's last change of  *)
(* e has run to its end.                                                   *)
(***************************************************************************)

MaxEvents == 2

EmbedSeq == <<"e1">>

EmbedAlts ==
  {"a.png", "", "Hi", "caption:Hi|width:50%", "caption:Hi|class:big",
   "imagenote|caption:Hi", "video|caption:Hi"}

EmbedWidths == {Undefined, Some(""), Some("100")}

\* what the author changes an alt text and a width to
EditedAlts == {"", "Hi", "caption:Hi|width:50%", "figure|caption:Hi|class:"}

EditedWidths == {Undefined, Some("100")}

ExternalAlts == {"Hi", "video|caption:Hi", "https://x.org/a.png"}

ExternalSrcs == {"https://x.org/a.png", "https://youtu.be/abc", "https://vimeo.com/12"}

Image(alt, src, width) ==
  [tag |-> "img", alt |-> Some(alt), src |-> src, width |-> width,
   poster |-> Undefined, parent |-> 0, inDiv |-> FALSE]

\* the span the host renders for ![[a.png|alt|width]]
InternalEmbed(alt, width) ==
  [alt |-> Some(alt), src |-> "a.png", width |-> width, isEmbed |-> TRUE,
   img |-> Image(alt, "app://a.png", IF Truthy(width) THEN width ELSE Undefined),
   nodes |-> <<>>, next |-> 1]

\* the paragraph the host renders for ![alt](src)
ExternalImage(alt, src) ==
  [alt |-> Undefined, src |-> "", width |-> Undefined, isEmbed |-> FALSE,
   img |-> Image(alt, src, Undefined), nodes |-> <<>>, next |-> 1]

HostedElements ==
  {InternalEmbed(a, w) : a \in EmbedAlts, w \in EmbedWidths}
    \cup {ExternalImage(a, u) : a \in ExternalAlts, u \in ExternalSrcs}

\* the continuations of a handler over e, as tasks
TasksOf(spawn, e, pass, fresh) ==
  [i \in 1..Len(spawn) |->
     [op |-> spawn[i].op, nid |-> spawn[i].nid, caption |-> spawn[i].caption,
      then |-> spawn[i].then, width |-> spawn[i].width,
      target |-> spawn[i].target, style |-> spawn[i].style,
      e |-> e, pass |-> pass, fresh |-> fresh]]

TimerTask(e) ==
  [op |-> "timer", nid |-> 0, caption |-> "", then |-> "none", width |-> "",
   target |-> 0, style |-> Undefined, e |-> e, pass |-> FALSE, fresh |-> TRUE]

\* the state a callback works on: the document, the tasks and records it
\* adds, the embeds over which a pass ended without an await, whether an
\* exception left it, and the number of records it then did not get to
Working(d) ==
  [dom |-> d, tasks |-> <<>>, recs |-> <<>>, done |-> {}, threw |-> FALSE,
   dropped |-> 0]

\* lines 35-80 and 970-1001: querySelectorAll(...).forEach over the embeds
\* below the target of a childList record
RECURSIVE reconcileEmbeds(_, _)
reconcileEmbeds(st, i) ==
  IF i > Len(EmbedSeq) THEN st
  ELSE IF ~st.dom[EmbedSeq[i]].isEmbed THEN reconcileEmbeds(st, i + 1)
  ELSE With(EmbedSeq[i], LAMBDA e :
       With(IF rev = 3 THEN processEmbed(st.dom[e], e)
            ELSE reconcileEmbed(st.dom[e], settings.captionRegex), LAMBDA r :
       With([st EXCEPT
               !.dom[e] = r.em,
               !.tasks = @ \o TasksOf(r.spawn, e, TRUE, TRUE),
               !.recs = @ \o r.recs,
               !.done = IF r.spawn = <<>> THEN @ \cup {e} ELSE @],
            LAMBDA st1 : reconcileEmbeds(st1, i + 1))))

\* handleRecord looking for embeds in the whole document rather than below
\* the target of the record
handleRecordAnyTarget(st, rec) ==
  IF rec.type = "childList" THEN reconcileEmbeds(st, 1)
  ELSE IF rev # 3 THEN st
  ELSE IF rec.target = "embed"
  THEN With(processEmbedAlt(st.dom[rec.e]), LAMBDA r :
         [st EXCEPT !.dom[rec.e] = r.em, !.threw = r.threw])
  ELSE [st EXCEPT !.tasks = Append(@, TimerTask(rec.e))]

\* lines 33-82 and 951-958: the callback for one record
handleRecord(st, rec) ==
  IF rec.type = "childList"
  THEN IF rec.target = "ancestor" THEN reconcileEmbeds(st, 1) ELSE st
  ELSE IF rev # 3 THEN st
  ELSE IF rec.target = "embed"
  THEN With(processEmbedAlt(st.dom[rec.e]), LAMBDA r :
         [st EXCEPT !.dom[rec.e] = r.em, !.threw = r.threw])
  ELSE [st EXCEPT !.tasks = Append(@, TimerTask(rec.e))]

\* mutations.forEach: an exception that leaves the callback of one record
\* ends the loop, and the records after it are never handled
RECURSIVE handleRecords(_, _, _)
handleRecords(st, recs, i) ==
  IF i > Len(recs) THEN st
  ELSE With(handleRecord(st, recs[i]), LAMBDA st1 :
         IF st1.threw THEN [st1 EXCEPT !.dropped = Len(recs) - i]
         ELSE handleRecords(st1, recs, i + 1))

\* a continuation resumes with the rendered nodes: the caption element it
\* holds receives them (nothing in the tree changes when its container was
\* removed), then the caller's tail runs
applyContinuation(em, t, children) ==
  LET pos == PositionOf(em, t.nid)
      em1 == IF pos = 0 THEN em
             ELSE IF t.op = "createFigcaption"
             THEN [em EXCEPT !.nodes[pos].cap =
                     Some([tag |-> "figcaption", children |-> children])]
             ELSE [em EXCEPT !.nodes[pos].cap =
                     Some([@[1] EXCEPT !.children = children])]
  IN  IF t.then = "width" THEN setImageWidth(em1, t.width)
      ELSE IF t.then = "styles" THEN updateFigureStyles(em1, t.target, t.style)
      ELSE em1

\* the record queue with recs added.  A run of childList records with targets
\* inside the embeds is kept as one record: the callback finds no embed below
\* such a target, whatever their number
RECURSIVE Enqueue(_, _)
Enqueue(queue, recs) ==
  IF recs = <<>> THEN queue
  ELSE IF queue # <<>> /\ Head(recs) = InnerRecord /\ queue[Len(queue)] = InnerRecord
  THEN Enqueue(queue, Tail(recs))
  ELSE Enqueue(Append(queue, Head(recs)), Tail(recs))

RemoveAt(seq, i) == SubSeq(seq, 1, i - 1) \o SubSeq(seq, i + 1, Len(seq))

\* the host changed e: what is running over e no longer started after the
\* last change
Stale(ts, e) ==
  [i \in 1..Len(ts) |-> IF ts[i].e = e THEN [ts[i] EXCEPT !.fresh = FALSE] ELSE ts[i]]

Init ==
  /\ call = NoCall
  /\ rev \in {1, 3}
  /\ settings = [captionRegex |-> ""]
  /\ host \in [render : RenderOutcomes]
  /\ dom \in [Embeds -> HostedElements]
  /\ tasks = <<>>
  /\ records = <<AncestorRecord>>
  /\ settled = [e \in Embeds |-> FALSE]
  /\ steps = 0
  /\ dropped = 0

\* the MutationObserver callback, lines 32-83 and 950-959, for the records
\* queued so far
Deliver ==
  /\ records # <<>>
  /\ \E st \in {handleRecords(Working(dom), records, 1)} :
       /\ dom' = st.dom
       /\ tasks' = tasks \o st.tasks
       /\ records' = Enqueue(<<>>, st.recs)
       /\ settled' = [e \in Embeds |-> settled[e] \/ e \in st.done]
       /\ dropped' = dropped + st.dropped
  /\ UNCHANGED <<call, rev, settings, host, steps>>

\* renderMarkdown resolves and the continuation tasks[i] runs to its end
Resume(i) ==
  /\ tasks[i].op # "timer"
  /\ LET t == tasks[i]
         children == IF rev = 3 THEN updatedChildren(host.render, t.caption)
                     ELSE renderedChildren(host.render, t.caption)
     IN  /\ dom' = [dom EXCEPT ![t.e] = applyContinuation(@, t, children)]
         /\ records' = Enqueue(records, InnerRecords(IF PositionOf(dom[t.e], t.nid) = 0 THEN 0
                                               ELSE IF t.op = "createFigcaption" THEN 2
                                               ELSE 1))
         /\ settled' = [settled EXCEPT ![t.e] = @ \/ (t.pass /\ t.fresh)]
  /\ tasks' = RemoveAt(tasks, i)
  /\ UNCHANGED <<call, rev, settings, host, steps, dropped>>

\* the timer of lines 1028-1043 fires
Timer(i) ==
  /\ tasks[i].op = "timer"
  /\ \E r \in {imageAltTimer(dom[tasks[i].e])} :
       /\ dom' = [dom EXCEPT ![tasks[i].e] = r.em]
       /\ tasks' = RemoveAt(tasks, i) \o TasksOf(r.spawn, tasks[i].e, FALSE, tasks[i].fresh)
       /\ records' = Enqueue(records, r.recs)
  /\ UNCHANGED <<call, rev, settings, host, settled, steps, dropped>>

\* the host runs the post-processor on the section of e, which it has just
\* rendered: nothing has been synthesized in it yet.  No pass of the
\* reconciler has seen what it leaves
PostProcess(e) ==
  /\ steps < MaxEvents
  /\ dom[e].nodes = <<>> /\ dom[e].img.parent = 0
  /\ \E r \in {IF rev = 3 THEN postProcessImageR3(dom[e], e)
               ELSE postProcessImage(dom[e], settings.captionRegex)} :
       /\ dom' = [dom EXCEPT ![e] = r.em]
       /\ tasks' = tasks \o TasksOf(r.spawn, e, FALSE, TRUE)
       /\ records' = Enqueue(records, r.recs)
  /\ settled' = [settled EXCEPT ![e] = FALSE]
  /\ steps' = steps + 1
  /\ UNCHANGED <<call, rev, settings, host, dropped>>

\* the author edits the alt text of the embed e
HostSetAlt(e, alt) ==
  /\ steps < MaxEvents
  /\ dom[e].isEmbed
  /\ dom' = [dom EXCEPT ![e].alt = Some(alt)]
  /\ tasks' = Stale(tasks, e)
  /\ records' = IF rev = 3 THEN Append(records, AltRecord(e, "embed")) ELSE records
  /\ settled' = [settled EXCEPT ![e] = FALSE]
  /\ steps' = steps + 1
  /\ UNCHANGED <<call, rev, settings, host, dropped>>

\* the author edits the width of the embed e
HostSetWidth(e, width) ==
  /\ steps < MaxEvents
  /\ dom[e].isEmbed
  /\ dom' = [dom EXCEPT ![e].width = width]
  /\ tasks' = Stale(tasks, e)
  /\ settled' = [settled EXCEPT ![e] = FALSE]
  /\ steps' = steps + 1
  /\ UNCHANGED <<call, rev, settings, host, records, dropped>>

\* the author rewrites the link of the embed e: its alt text and its width
\* change together
HostSetAltWidth(e, alt, width) ==
  /\ steps < MaxEvents
  /\ dom[e].isEmbed
  /\ dom' = [dom EXCEPT ![e].alt = Some(alt), ![e].width = width]
  /\ tasks' = Stale(tasks, e)
  /\ records' = IF rev = 3 THEN Append(records, AltRecord(e, "embed")) ELSE records
  /\ settled' = [settled EXCEPT ![e] = FALSE]
  /\ steps' = steps + 1
  /\ UNCHANGED <<call, rev, settings, host, dropped>>

\* the host changes the children of an ancestor of the embeds
HostChildList ==
  /\ steps < MaxEvents
  /\ records' = Append(records, AncestorRecord)
  /\ steps' = steps + 1
  /\ UNCHANGED <<call, rev, settings, host, dom, tasks, settled, dropped>>

Next ==
  \/ Deliver
  \/ \E i \in 1..Len(tasks) : Resume(i)
  \/ \E i \in 1..Len(tasks) : Timer(i)
  \/ \E e \in Embeds : PostProcess(e)
  \/ \E e \in Embeds, alt \in EditedAlts : HostSetAlt(e, alt)
  \/ \E e \in Embeds, width \in EditedWidths : HostSetWidth(e, width)
  \/ \E e \in Embeds, alt \in EditedAlts, width \in EditedWidths :
       HostSetAltWidth(e, alt, width)
  \/ HostChildList

Spec == Init /\ [][Next]_vars

(***************************************************************************)
(* Claims about the document (specification Spec)                          *)
(***************************************************************************)

\* nothing is left to run for e: no continuation, no timer, no record
Quiet(e) ==
  /\ records = <<>>
  /\ \A i \in 1..Len(tasks) : tasks[i].e # e

\* a pass over e that started after the host's last change of e has ended,
\* and nothing is left to run
Reconciled(e) == dom[e].isEmbed /\ settled[e] /\ Quiet(e)

\* the caption the revision's parser derives from the embed as it is
DerivedCaption(e) ==
  IF rev = 3 THEN parseAltAttributes(OrEmpty(dom[e].alt)).caption
  ELSE parseImageData(OrEmpty(dom[e].alt), dom[e].src, settings.captionRegex).caption

\* C2: in every reachable state the element the host rendered for a media
\* reference holds at most one synthesized container (no second, leftover
\* one), whatever its kind.
C2_SingleContainer == \A e \in Embeds : Len(dom[e].nodes) <= 1

\* no continuation and no timer of e is waiting
NoTask(e) == \A i \in 1..Len(tasks) : tasks[i].e # e

\* the media element of e is inside a figure
InFigure(e) ==
  /\ dom[e].img.parent # 0
  /\ IsFigure(dom[e].nodes[PositionOf(dom[e], dom[e].img.parent)])

\* the records waiting are childList records: no change of an alt text,
\* the host's or the plugin's own, is still to be handled
OnlyChildList == \A i \in 1..Len(records) : records[i].type = "childList"

\* C3: once a pass over an embed has ended, with nothing of it left waiting
\* and no host edit since it started, the next callback (a second pass over
\* the same embed) leaves the containers of the embed, with their kind,
\* classes, style and caption content, and its media element as they were.
C3_SecondPassNoDiff ==
  [][\A e \in Embeds :
       settled[e] /\ NoTask(e) /\ OnlyChildList /\ steps' = steps =>
         dom'[e].nodes = dom[e].nodes /\ dom'[e].img = dom[e].img]_vars

\* C4: when an embed has been reconciled and the caption derived from it is
\* empty, its media element is not inside a figure.
C4_EmptyCaptionUnwraps ==
  \A e \in Embeds : Reconciled(e) /\ DerivedCaption(e) = "" => ~InFigure(e)

\* C5: when an embed has been reconciled, the width attribute of its media
\* element is absent if the embed has no width or an empty one, and equal to
\* the width of the embed otherwise.
C5_WidthSynchronised ==
  \A e \in Embeds :
    Reconciled(e) =>
      dom[e].img.width = (IF Truthy(dom[e].width) THEN dom[e].width ELSE Undefined)

\* the alt text asks for kind video: a first segment video and a second
VideoAlt(alt) ==
  LET parts == MapTrim(Split(alt, "|"))
  IN  Len(parts) > 1 /\ parts[1] = "video"

\* the alt text the revision's parser reads for the element
RawAlt(em) == IF em.isEmbed THEN OrEmpty(em.alt) ELSE OrEmpty(em.img.alt)

\* the forms of a hosted video's address, and the identifier after one
VideoForms ==
  {"youtube.com/watch?v=", "youtu.be/", "youtube.com/embed/",
   "vimeo.com/", "player.vimeo.com/video/"}

HostedVideo(src) == \E form \in VideoForms : Includes(src, form)

VideoIdAfter(src, form) ==
  LET from == IndexOf(src, form) + Len(form)
      stop == NonCharFrom(src, VideoIdChars, from)
  IN  SubSeq(src, from, IF stop = 0 THEN Len(src) ELSE stop - 1)

\* C13: when a container is synthesized for an element whose alt text asks
\* for kind video, it is the video figure; with a src of a YouTube or Vimeo
\* form its video division holds the lazy-play fragment referencing the
\* video id of the src, with any other src it holds the media element.
C13_VideoFigure ==
  [][\A e \in Embeds :
       dom[e].nodes = <<>> /\ dom'[e].nodes # <<>> /\ VideoAlt(RawAlt(dom[e])) =>
         LET c == dom'[e].nodes[1]
             src == dom[e].img.src
         IN  /\ c.cls[1] = "videofigure"
             /\ c.div # Undefined
             /\ IF HostedVideo(src)
                THEN /\ c.div[1].fragment # Undefined
                     /\ \E form \in VideoForms :
                          /\ Includes(src, form)
                          /\ Includes(c.div[1].fragment[1].dataSrc,
                                      "/" \o VideoIdAfter(src, form) \o "?")
                ELSE /\ c.div[1].fragment = Undefined
                     /\ dom'[e].img.parent = c.nid
                     /\ dom'[e].img.inDiv]_vars

\* C14: when no caption render of an element is waiting, every caption
\* element in its containers has at least one child, whatever the markdown
\* render service returned: the rendered nodes or a text node.
C14_CaptionNotChildless ==
  \A e \in Embeds :
    NoTask(e) =>
      \A k \in 1..Len(dom[e].nodes) :
        dom[e].nodes[k].cap # Undefined =>
          dom[e].nodes[k].cap[1].children # <<>>

\* a continuation of a pass over e is waiting that was suspended when the
\* host changed the alt text or the width of e
Overtaken(e) ==
  \E i \in 1..Len(tasks) : tasks[i].e = e /\ tasks[i].pass /\ ~tasks[i].fresh

\* every caption element of e shows the caption derived from e as it is
CaptionShown(e) ==
  \A k \in 1..Len(dom[e].nodes) :
    dom[e].nodes[k].cap # Undefined =>
      \A n \in 1..Len(dom[e].nodes[k].cap[1].children) :
        dom[e].nodes[k].cap[1].children[n].of = DerivedCaption(e)

\* the media element of e has the width of e
WidthShown(e) ==
  dom[e].img.width = (IF Truthy(dom[e].width) THEN dom[e].width ELSE Undefined)

\* a pass over e that started after the host's last change of e has ended,
\* no continuation of e is waiting, and the records waiting are those of
\* writes inside the embeds, for which the callback does nothing
Finished(e) ==
  /\ dom[e].isEmbed
  /\ settled[e]
  /\ NoTask(e)
  /\ \A i \in 1..Len(records) : records[i] = InnerRecord

\* C18: when the last continuation of an embed ends, after the host changed
\* the embed's alt text or width while a continuation was suspended and
\* after a pass that started since that change has ended, the caption
\* elements show the caption of the latest alt text and the media element
\* has the latest width.
C18_LatestAfterOverlap ==
  [][\A e \in Embeds :
       Overtaken(e) /\ Finished(e)' => CaptionShown(e)' /\ WidthShown(e)']_vars

\* C16: no change record handed to the observer's callback is left
\* unhandled because handling a record before it in the same batch failed.
C16_NoRecordDropped == dropped = 0

\* the continuation tasks[i] resumes in this step
Resumes(i) ==
  /\ i \in 1..Len(tasks)
  /\ tasks[i].op # "timer"
  /\ tasks' = RemoveAt(tasks, i)
  /\ steps' = steps
  /\ call' = call

\* C19: when a continuation resumes whose container has been removed from
\* the tree while its caption was rendered, the embed, its containers and
\* its media element are left as they are.
C19_RemovedLeftAlone ==
  [][\A i \in 1..Len(tasks) :
       Resumes(i) /\ PositionOf(dom[tasks[i].e], tasks[i].nid) = 0 =>
         dom' = dom]_vars

\* no record waits for the observer, no render is awaited and no timer is set
Quiescent == records = <<>> /\ tasks = <<>>

\* the work a waiting record can still cause: a childList record on an
\* ancestor starts a pass over the embeds, a record for the alt of a media
\* element sets a timer, the other records cause nothing
RecordWork(rec) ==
  IF rec.type = "childList" THEN (IF rec.target = "ancestor" THEN 20 ELSE 1)
  ELSE IF rec.target = "img" THEN 4 ELSE 1

\* the work a waiting task can still cause: a timer awaits one render, a
\* resumed render leaves childList records inside the embed
TaskWork(t) == IF t.op = "timer" THEN 3 ELSE 2

RECURSIVE RecordsWork(_, _)
RecordsWork(recs, i) ==
  IF i > Len(recs) THEN 0 ELSE RecordWork(recs[i]) + RecordsWork(recs, i + 1)

RECURSIVE TasksWork(_, _)
TasksWork(ts, i) ==
  IF i > Len(ts) THEN 0 ELSE TaskWork(ts[i]) + TasksWork(ts, i + 1)

\* the work left: a natural number, 0 exactly when the plugin has nothing
\* left to run
WorkLeft == RecordsWork(records, 1) + TasksWork(tasks, 1)

extractStep(source, st, i) ==
  LET char == At(source, i)
      nextChar == IF i < Len(source) THEN At(source, i + 1) ELSE ""
      count == IF char = "[" THEN st.bracketCount + 1
               ELSE IF char = "]" THEN st.bracketCount - 1
               ELSE st.bracketCount
  IN  IF st.skip THEN [st EXCEPT !.skip = FALSE]
      ELSE IF char = "!" /\ nextChar = "["
      THEN [st EXCEPT !.skip = TRUE, !.inWikilink = TRUE, !.current = "![",
                      !.bracketCount = 1]
      ELSE IF ~st.inWikilink THEN st
      ELSE IF char = "]" /\ count = 0
      THEN [st EXCEPT !.inWikilink = FALSE, !.current = "", !.bracketCount = count,
                      !.wikilinks = Append(@, st.current \o char)]
      ELSE [st EXCEPT !.current = @ \o char, !.bracketCount = count]

\* the turns of the loop of line 1226 at the positions from..to, in order
RECURSIVE extractLoop(_, _, _, _)
extractLoop(source, st, from, to) ==
  IF from > to THEN st
  ELSE IF from = to THEN extractStep(source, st, from)
  ELSE With(extractLoop(source, st, from, (from + to) \div 2), LAMBDA st1 :
         extractLoop(source, st1, (from + to) \div 2 + 1, to))

\* lines 1220-1253
extractWikilinks(source) ==
  extractLoop(source, [skip |-> FALSE, current |-> "", inWikilink |-> FALSE,
                       bracketCount |-> 0, wikilinks |-> <<>>],
              1, Len(source)).wikilinks

\* lines 95-99: the trimmed lines of the block that start with ![[
gridLines(source) ==
  SelectSeq(MapTrim(Split(Trim(source), "\n")),
            LAMBDA trimmedLine : trimmedLine # "" /\ OccursAt(trimmedLine, 1, "![["))

\* the first position >= i of a character of set in s, Len(s) + 1 when there
\* is none
RunEnd(s, set, i) ==
  LET stop == CharFrom(s, set, i) IN IF stop = 0 THEN Len(s) + 1 ELSE stop

\* imageSyntax.match(/!\[\[([^|\]]+)(\|([^\]]+))?\]\]/) tried at position i:
\* the path is the longest run without | and ], the parameters the longest
\* run without ], and ]] has to follow
matchGridSyntaxAt(s, i) ==
  LET pathEnd == RunEnd(s, {"|", "]"}, i + 3)
      paramsEnd == RunEnd(s, {"]"}, pathEnd + 1)
  IN  IF ~OccursAt(s, i, "![[") \/ pathEnd = i + 3 THEN Undefined
      ELSE IF OccursAt(s, pathEnd, "]]")
      THEN Some([path |-> SubSeq(s, i + 3, pathEnd - 1), params |-> ""])
      ELSE IF /\ OccursAt(s, pathEnd, "|")
              /\ paramsEnd > pathEnd + 1
              /\ OccursAt(s, paramsEnd, "]]")
      THEN Some([path |-> SubSeq(s, i + 3, pathEnd - 1),
                 params |-> SubSeq(s, pathEnd + 1, paramsEnd - 1)])
      ELSE Undefined

\* cleanSyntax.match(/!\[\[\s*([^|\]]+?)\s*(?:\|([\s\S]+?))?\]\]/) tried at
\* position i: the path is the run without | and ], the parameters end at
\* the first ]] that has a character before it
matchWikilinkAt(s, i) ==
  LET pathEnd == RunEnd(s, {"|", "]"}, i + 3)
      close == IndexFrom(s, "]]", pathEnd + 2)
  IN  IF ~OccursAt(s, i, "![[") \/ pathEnd = i + 3 THEN Undefined
      ELSE IF OccursAt(s, pathEnd, "|") /\ close # 0
      THEN Some([path |-> SubSeq(s, i + 3, pathEnd - 1),
                 params |-> SubSeq(s, pathEnd + 1, close - 1)])
      ELSE IF OccursAt(s, pathEnd, "]]")
      THEN Some([path |-> SubSeq(s, i + 3, pathEnd - 1), params |-> ""])
      ELSE Undefined

\* String.prototype.match without the g flag: the match at the first
\* position that has one
RECURSIVE firstMatch(_, _, _)
firstMatch(s, i, lazy) ==
  IF i > Len(s) THEN Undefined
  ELSE With(IF lazy THEN matchWikilinkAt(s, i) ELSE matchGridSyntaxAt(s, i),
            LAMBDA match : IF match # Undefined THEN match
                           ELSE firstMatch(s, i + 1, lazy))

\* lines 106-110: the path and the parameters of a token
splitGridSyntax(imageSyntax) ==
  firstMatch(imageSyntax, 1, FALSE)

\* lines 1256-1262
splitWikilink(imageSyntax) ==
  With(firstMatch(Trim(CollapseSpaces(imageSyntax)), 1, TRUE), LAMBDA match :
    IF match = Undefined THEN Undefined
    ELSE Some([path |-> Trim(match[1].path), params |-> Trim(match[1].params)]))

\* the resources of the vault, and the path the host gives for one
VaultFiles == {"a.png", "b.png"}

getResourcePath(path) == "app://" \o path

\* container.createEl("img") with its src and alt set, for a token
GridImage(token, path, params) ==
  [token |-> token, alt |-> Undefined, src |-> "", width |-> Undefined,
   isEmbed |-> FALSE, img |-> Image(params, getResourcePath(path), Undefined),
   nodes |-> <<>>, next |-> 1]

\* lines 105-122, to the await: Undefined when no element is created
processGridImage(imageSyntax, captionRegex) ==
  With(splitGridSyntax(imageSyntax), LAMBDA match :
    IF match = Undefined THEN Undefined
    ELSE IF match[1].path \notin VaultFiles THEN Undefined
    ELSE With(GridImage(imageSyntax, match[1].path, match[1].params), LAMBDA em :
           Some(insertFigureWithCaption(
                  em, parseImageData(OrEmpty(em.img.alt), em.img.src, captionRegex)))))

\* processGridImageR3 without the return of lines 1265-1268
processGridImageR3Unresolved(imageSyntax, e) ==
  With(splitWikilink(imageSyntax), LAMBDA match :
    IF match = Undefined THEN Undefined
    ELSE With(GridImage(imageSyntax, match[1].path, match[1].params), LAMBDA em :
           Some(insertFigureWithCaptionR3(em, e, parseAltAttributes(match[1].params)))))

\* lines 1255-1277, to the await
processGridImageR3(imageSyntax, e) ==
  With(splitWikilink(imageSyntax), LAMBDA match :
    IF match = Undefined THEN Undefined
    ELSE IF match[1].path \notin VaultFiles THEN Undefined
    ELSE With(GridImage(imageSyntax, match[1].path, match[1].params), LAMBDA em :
           Some(insertFigureWithCaptionR3(em, e, parseAltAttributes(match[1].params)))))

\* processTokens taking the tokens from the last to the first
RECURSIVE processTokensLastFirst(_, _, _)
processTokensLastFirst(st, tokens, i) ==
  IF i > Len(tokens) THEN st
  ELSE With(IF rev = 3
            THEN processGridImageR3(tokens[Len(tokens) + 1 - i], Len(st.dom) + 1)
            ELSE processGridImage(tokens[Len(tokens) + 1 - i], settings.captionRegex),
            LAMBDA r :
         IF r = Undefined THEN processTokensLastFirst(st, tokens, i + 1)
         ELSE With([st EXCEPT
                      !.dom = Append(@, r[1].em),
                      !.tasks = @ \o TasksOf(r[1].spawn, Len(st.dom) + 1, FALSE, TRUE)],
                   LAMBDA st1 : processTokensLastFirst(st1, tokens, i + 1)))

\* lines 97-102 and 1213-1215: every token in turn, each to its first await
RECURSIVE processTokens(_, _, _)
processTokens(st, tokens, i) ==
  IF i > Len(tokens) THEN st
  ELSE With(IF rev = 3 THEN processGridImageR3(tokens[i], Len(st.dom) + 1)
            ELSE processGridImage(tokens[i], settings.captionRegex), LAMBDA r :
         IF r = Undefined THEN processTokens(st, tokens, i + 1)
         ELSE With([st EXCEPT
                      !.dom = Append(@, r[1].em),
                      !.tasks = @ \o TasksOf(r[1].spawn, Len(st.dom) + 1, FALSE, TRUE)],
                   LAMBDA st1 : processTokens(st1, tokens, i + 1)))

\* the most lines a block has
MaxGridLines == 2

GridLines ==
  {"![[a.png]]", "![[b.png|caption:B]]", "![[a.png|caption:See [[Note]]]]",
   "![[x.png|caption:X]]", "![[b.png|imagenote|caption:B]]",
   "![[a.png]] ![[b.png]]", "![x](u)", "text"}

RECURSIVE GridSourcesOf(_)
GridSourcesOf(n) ==
  IF n = 1 THEN GridLines
  ELSE {s \o "\n" \o line : s \in GridSourcesOf(n - 1), line \in GridLines}

GridSources == UNION {GridSourcesOf(n) : n \in 1..MaxGridLines}

GridInit ==
  /\ call \in {[fn |-> "none", alt |-> s, src |-> "", out |-> Undefined] :
                 s \in GridSources}
  /\ rev \in {1, 3}
  /\ settings = [captionRegex |-> ""]
  /\ host \in [render : RenderOutcomes]
  /\ dom = <<>>
  /\ tasks = <<>>
  /\ records = <<>>
  /\ settled = <<>>
  /\ steps = 0
  /\ dropped = 0

\* lines 91-103 and 1209-1218: the processor, to the awaits of its tokens
FigureGridProcessor ==
  /\ call.fn = "none"
  /\ \E wikilinks \in {IF rev = 3 THEN extractWikilinks(call.alt)
                       ELSE gridLines(call.alt)} :
       \E st \in {processTokens(Working(<<>>), wikilinks, 1)} :
         /\ call' = [call EXCEPT !.fn = "figureGridProcessor", !.out = wikilinks]
         /\ dom' = st.dom
         /\ tasks' = st.tasks
  /\ UNCHANGED <<rev, settings, host, records, settled, steps, dropped>>

\* renderMarkdown resolves for a grid item and the continuation tasks[i] runs
GridResume(i) ==
  /\ LET t == tasks[i]
         children == IF rev = 3 THEN updatedChildren(host.render, t.caption)
                     ELSE renderedChildren(host.render, t.caption)
     IN  dom' = [dom EXCEPT ![t.e] = applyContinuation(@, t, children)]
  /\ tasks' = RemoveAt(tasks, i)
  /\ UNCHANGED <<call, rev, settings, host, records, settled, steps, dropped>>

GridNext ==
  \/ FigureGridProcessor
  \/ \E i \in 1..Len(tasks) : GridResume(i)

SpecGrid == GridInit /\ [][GridNext]_vars

(***************************************************************************)
(* Claims about the grid (specification SpecGrid)                          *)
(***************************************************************************)

GridProcessed == call.fn = "figureGridProcessor"

\* the number of [ less the number of ] among the first k characters of s
BracketDepth(s, k) ==
  Cardinality({i \in 1..k : At(s, i) = "["}) - Cardinality({i \in 1..k : At(s, i) = "]"})

\* a complete embed token: from the opener ![[ to the ]] that closes it
CompleteToken(t) ==
  /\ OccursAt(t, 1, "![[")
  /\ OccursAt(t, Len(t) - 1, "]]")
  /\ BracketDepth(t, Len(t)) = 0
  /\ \A k \in 2..(Len(t) - 1) : BracketDepth(t, k) > 0

\* C12: every token the extraction returns is a complete embed token, from
\* the opener ![[ to its matching ]]; the text with a link nested in the
\* parameters is one token, and the text of two embeds on two lines gives
\* exactly those two tokens, in source order.
C12_CompleteTokens ==
  GridProcessed =>
    /\ \A k \in 1..Len(call.out) : CompleteToken(call.out[k])
    /\ call.alt = "![[a.png|caption:See [[Note]]]]" => call.out = <<call.alt>>
    /\ call.alt = "![[a.png]]\n![[b.png|caption:B]]" =>
         call.out = <<"![[a.png]]", "![[b.png|caption:B]]">>

\* the parameters the revision's split takes from a token
GridParams(token) ==
  LET match == IF rev = 3 THEN splitWikilink(token) ELSE splitGridSyntax(token)
  IN  IF match = Undefined THEN Undefined ELSE Some(Trim(match[1].params))

\* the text of a complete token between its first | and its final ]]
WholeParams(token) == Trim(SubSeq(token, IndexOf(token, "|") + 1, Len(token) - 2))

\* C20: for every extracted complete token ![[PATH|PARAMS]] the split gives
\* the parser the whole PARAMS text, from the first | to the final ]] of the
\* token; the token ![[a.png|caption:See [[Note]]]] gets the caption
\* "See [[Note]]".
C20_WholeParams ==
  GridProcessed =>
    /\ \A k \in 1..Len(call.out) :
         CompleteToken(call.out[k]) /\ Includes(call.out[k], "|") =>
           GridParams(call.out[k]) = Some(WholeParams(call.out[k]))
    /\ call.alt = "![[a.png|caption:See [[Note]]]]" =>
         /\ Len(dom) = 1
         /\ dom[1].img.alt = Some("See [[Note]]")

\* the path of a token: what stands between the opener and the first | or ]
TokenPath(token) == Trim(SubSeq(token, 4, RunEnd(token, {"|", "]"}, 4) - 1))

\* the token names a resource of the vault
Resolvable(token) == OccursAt(token, 1, "![[") /\ TokenPath(token) \in VaultFiles

\* C15: a token whose path names no resource of the vault leaves no element
\* in the grid container, and the other tokens of the block are processed:
\* the grid holds, in token order, one media element for each resolvable
\* token, each with exactly one synthesized container.
C15_UnresolvedSkipped ==
  GridProcessed =>
    /\ <<>> = SelectSeq(dom, LAMBDA em : ~Resolvable(em.token))
    /\ [k \in 1..Len(dom) |-> dom[k].token] = SelectSeq(call.out, Resolvable)
    /\ \A k \in 1..Len(dom) : Len(dom[k].nodes) = 1

\* a block whose first token names no resource and whose second does, with
\* every caption rendered
C15_Reached ==
  /\ GridProcessed
  /\ call.alt = "![[x.png|caption:X]]\n![[b.png|caption:B]]"
  /\ Len(call.out) = 2
  /\ Len(dom) = 1
  /\ tasks = <<>>

\* a[i..] can be read in b[j..] from left to right, skipping elements of b
RECURSIVE SubsequenceFrom(_, _, _, _)
SubsequenceFrom(a, b, i, j) ==
  IF i > Len(a) THEN TRUE
  ELSE IF j > Len(b) THEN FALSE
  ELSE IF a[i] = b[j] THEN SubsequenceFrom(a, b, i + 1, j + 1)
  ELSE SubsequenceFrom(a, b, i, j + 1)

\* the tokens of the elements of the grid container, in the order of the
\* container's children
GridTokens == [k \in 1..Len(dom) |-> dom[k].token]

\* C23: whichever caption renders have completed, the figures of the grid
\* container stand in the order of their tokens in the source block.
C23_FiguresInTokenOrder ==
  GridProcessed => SubsequenceFrom(GridTokens, call.out, 1, 1)

\* two figures of different tokens, the caption of the second rendered while
\* the render of the first is still awaited
C23_Reached ==
  /\ GridProcessed
  /\ Len(dom) = 2
  /\ dom[1].token # dom[2].token
  /\ dom[1].img.alt # Undefined
  /\ dom[2].img.alt # Undefined
  /\ Len(tasks) = 1
  /\ tasks[1].e = 1
  /\ Len(call.out) = 2

(***************************************************************************)
(* Live-tree grouping of revision 2 (lines 544-609).  In SpecGroup dom is  *)
(* the element tree under document.body: dom[n] is node n with its class   *)
(* list and its child nodes in order, node 1 is the body, and a node the   *)
(* code creates gets the next number.  An embed is a leaf here: the rest   *)
(* of the callback (lines 496-533, modelled in Spec) changes only what is  *)
(* inside an embed.  records holds the targets of the childList records    *)
(* waiting for the observer.                                               *)
(***************************************************************************)

TreeNode(nodeType, classList, kids, text) ==
  [nodeType |-> nodeType, classList |-> classList, kids |-> kids, text |-> text]

EmbedNode == TreeNode("element", {"internal-embed", "image-embed"}, <<>>, "")
DivNode(kids) == TreeNode("element", {}, kids, "")
TextNode(text) == TreeNode("text", {}, <<>>, text)

Body == 1

IsGroup(d, n) == "image-embed-group" \in d[n].classList
IsImageEmbed(d, n) == "image-embed" \in d[n].classList

\* the position of n in kids, 0 when it is not there
ChildIndex(kids, n) ==
  IF \E i \in 1..Len(kids) : kids[i] = n
  THEN CHOOSE i \in 1..Len(kids) : kids[i] = n
  ELSE 0

\* n.parentElement, 0 for null
parentElement(d, n) ==
  IF \E p \in 1..Len(d) : ChildIndex(d[p].kids, n) > 0
  THEN CHOOSE p \in 1..Len(d) : ChildIndex(d[p].kids, n) > 0
  ELSE 0

\* n.nextElementSibling, 0 for null: text nodes are passed over
nextElementSibling(d, n) ==
  LET p == parentElement(d, n)
      kids == IF p = 0 THEN <<>> ELSE d[p].kids
      later == {j \in (ChildIndex(kids, n) + 1)..Len(kids) :
                  d[kids[j]].nodeType = "element"}
  IN  IF later = {} THEN 0
      ELSE kids[CHOOSE j \in later : \A k \in later : j <= k]

\* the descendants of n in document order
RECURSIVE descendants(_, _), descendantsFrom(_, _, _)
descendants(d, n) == descendantsFrom(d, d[n].kids, 1)
descendantsFrom(d, kids, i) ==
  IF i > Len(kids) THEN <<>>
  ELSE <<kids[i]>> \o descendants(d, kids[i]) \o descendantsFrom(d, kids, i + 1)

\* container.querySelectorAll('.image-embed'), line 545
querySelectorAllImageEmbed(d, container) ==
  SelectSeq(descendants(d, container), LAMBDA n : IsImageEmbed(d, n))

\* lines 573-585.  nextElementSibling is an element or null, so the test
\* nodeType === TEXT_NODE of the loop at line 579 never holds: every text
\* node between the two elements is passed over, whatever its content.
areConsecutive(d, elem1, elem2) ==
  /\ parentElement(d, elem1) = parentElement(d, elem2)
  /\ nextElementSibling(d, elem1) = elem2

\* lines 550-565: the groups of more than one consecutive embed
RECURSIVE consecutiveGroups(_, _, _, _)
consecutiveGroups(d, imageEmbeds, i, currentGroup) ==
  IF i > Len(imageEmbeds) THEN <<>>
  ELSE LET current == imageEmbeds[i]
           group == Append(currentGroup, current)
       IN  IF i = Len(imageEmbeds) \/ ~areConsecutive(d, current, imageEmbeds[i + 1])
           THEN (IF Len(group) > 1 THEN <<group>> ELSE <<>>)
                  \o consecutiveGroups(d, imageEmbeds, i + 1, <<>>)
           ELSE consecutiveGroups(d, imageEmbeds, i + 1, group)

\* kids without the nodes of group
WithoutNodes(kids, group) ==
  SelectSeq(kids, LAMBDA k : ChildIndex(group, k) = 0)

\* lines 595-608: a new div.image-embed-group is put before group[0] in
\* parent, every element of the group is moved into it, and it gets the
\* class figure-grid
wrapGroup(d, parent, group) ==
  LET groupContainer == Len(d) + 1
      kids == d[parent].kids
      at == ChildIndex(kids, group[1])
      placed == SubSeq(kids, 1, at - 1) \o <<groupContainer>>
                  \o SubSeq(kids, at, Len(kids))
      moved == [n \in 1..Len(d) |->
                  [d[n] EXCEPT !.kids =
                     WithoutNodes(IF n = parent THEN placed ELSE @, group)]]
  IN  Append(moved,
             TreeNode("element", {"image-embed-group", "figure-grid"}, group, ""))

\* createGroupedContainer without the test of line 592
createGroupedContainerAnywhere(d, group) ==
  LET parent == parentElement(d, group[1])
  IN  IF parent = 0 THEN d
      ELSE wrapGroup(d, parent, group)

\* lines 587-609
createGroupedContainer(d, group) ==
  LET parent == parentElement(d, group[1])
  IN  IF parent = 0 THEN d
      ELSE IF IsGroup(d, parent) THEN d
      ELSE wrapGroup(d, parent, group)

\* lines 568-570: consecutiveGroups.forEach
RECURSIVE createGroupedContainers(_, _, _)
createGroupedContainers(d, groups, i) ==
  IF i > Len(groups) THEN d
  ELSE createGroupedContainers(createGroupedContainer(d, groups[i]), groups, i + 1)

\* lines 544-571
groupConsecutiveImageEmbeds(d, container) ==
  LET imageEmbeds == querySelectorAllImageEmbed(d, container)
  IN  IF Len(imageEmbeds) <= 1 THEN d
      ELSE createGroupedContainers(d, consecutiveGroups(d, imageEmbeds, 1, <<>>), 1)

\* lines 488-493: the grouping step for each childList record of a batch
RECURSIVE groupRecords(_, _, _)
groupRecords(d, recs, i) ==
  IF i > Len(recs) THEN d
  ELSE groupRecords(groupConsecutiveImageEmbeds(d, recs[i]), recs, i + 1)

\* the childList records the grouping of a batch leaves for the observer
\* (lines 536-539 observe the subtree of the body): for every container it
\* created, one for the parent that lost the embeds and one for the
\* container that received them
RECURSIVE groupMutations(_, _)
groupMutations(d, from) ==
  IF from > Len(d) THEN <<>>
  ELSE <<parentElement(d, from), from>> \o groupMutations(d, from + 1)

\* the most children of the block a document starts with
MaxKids == 2

\* the most nodes of a tree on which the observer still runs
MaxNodes == 9

ChildKinds == {"embed", "space", "text", "div"}

\* the nodes a child of kind k adds to the tree, the first of them being
\* the child, when the tree has n nodes: a div comes with one embed in it
NodesOfKind(k, n) ==
  CASE k = "embed" -> <<EmbedNode>>
    [] k = "space" -> <<TextNode(" ")>>
    [] k = "text" -> <<TextNode("x")>>
    [] k = "div" -> <<DivNode(<<n + 2>>), EmbedNode>>

\* the tree d with a child of kind k put into element p at position pos
InsertChild(d, p, pos, k) ==
  LET child == Len(d) + 1
      kids == d[p].kids
  IN  [d EXCEPT ![p].kids = SubSeq(kids, 1, pos - 1) \o <<child>>
                              \o SubSeq(kids, pos, Len(kids))]
        \o NodesOfKind(k, Len(d))

RECURSIVE AppendChildren(_, _, _)
AppendChildren(d, p, kinds) ==
  IF kinds = <<>> THEN d
  ELSE AppendChildren(InsertChild(d, p, Len(d[p].kids) + 1, Head(kinds)),
                      p, Tail(kinds))

\* the body with one block
EmptyDocument == <<DivNode(<<2>>), DivNode(<<>>)>>

InitialDocuments ==
  {AppendChildren(EmptyDocument, 2, kinds) :
     kinds \in UNION {[1..n -> ChildKinds] : n \in 0..MaxKids}}

GroupInit ==
  /\ call = [fn |-> "none", alt |-> "", src |-> "", out |-> Undefined]
  /\ rev = 2
  /\ settings = [captionRegex |-> ""]
  /\ host = [render |-> "inline"]
  /\ dom \in InitialDocuments
  /\ tasks = <<>>
  /\ records = <<>>
  /\ settled = <<>>
  /\ steps = 0
  /\ dropped = 0

\* the host puts a new child into an element of the tree; the observer gets
\* a childList record whose target is that element
HostInsertChild(p, pos, k) ==
  /\ steps < MaxEvents
  /\ Len(dom) < MaxNodes
  /\ dom[p].nodeType = "element"
  /\ ~IsImageEmbed(dom, p)
  /\ pos \in 1..(Len(dom[p].kids) + 1)
  /\ dom' = InsertChild(dom, p, pos, k)
  /\ records' = Append(records, p)
  /\ steps' = steps + 1
  /\ UNCHANGED <<call, rev, settings, host, tasks, settled, dropped>>

\* lines 487-493: the observer callback over the waiting records; out tells
\* whether the tree it ran on already had a group container
GroupCallback ==
  /\ records # <<>>
  /\ Len(dom) < MaxNodes
  /\ dom' = groupRecords(dom, records, 1)
  /\ records' = groupMutations(dom', Len(dom) + 1)
  /\ call' = [call EXCEPT !.fn = "groupConsecutiveImageEmbeds",
                          !.out = Some(\E n \in 1..Len(dom) : IsGroup(dom, n))]
  /\ UNCHANGED <<rev, settings, host, tasks, settled, steps, dropped>>

GroupNext ==
  \/ GroupCallback
  \/ \E p \in 1..Len(dom), pos \in 1..(MaxNodes + 1), k \in ChildKinds :
       HostInsertChild(p, pos, k)

SpecGroup == GroupInit /\ [][GroupNext]_vars

(***************************************************************************)
(* Claims about the grouping (specification SpecGroup)                     *)
(***************************************************************************)

\* the group containers of d
GroupsOf(d) == {n \in 1..Len(d) : IsGroup(d, n)}

\* the ancestors of n in d
RECURSIVE Ancestors(_, _)
Ancestors(d, n) ==
  LET p == parentElement(d, n)
  IN  IF p = 0 THEN {} ELSE {p} \cup Ancestors(d, p)

DEFAULT_SETTINGS == [captionRegex |-> ""]

\* what loadData can resolve to: null, or the stored object
StoredData == {Undefined, Some([captionRegex |-> "X(.*)"])}

\* Object.assign({}, DEFAULT_SETTINGS, data), line 443
ObjectAssign(defaults, data) == IF data = Undefined THEN defaults ELSE data[1]

\* the processors onload registers before the await of loadSettings
RegisteredEarly(r) ==
  CASE r = 1 -> {"figure-grid-container", "postProcessor"}
    [] r = 2 -> {"postProcessor"}
    [] r = 3 -> {}

\* the processors onload has registered when it returns
RegisteredLate(r) ==
  CASE r = 1 -> {"figure-grid-container", "postProcessor"}
    [] r = 2 -> {"postProcessor"}
    [] r = 3 -> {"columnGrid", "postProcessor"}

\* line 211: parseImageData reads this.settings.captionRegex unless it has
\* returned at line 150
readsSettings(altText, src) == ~isDefaultAlt(altText, src)

\* a call of the parser of revision r for a media element, with the
\* settings as they are: the read of line 211 throws a TypeError when
\* settings is undefined, and out is then Undefined
parseCall(r, altText, src, s) ==
  IF r = 3
  THEN [fn |-> "parseAltAttributes", alt |-> altText, src |-> src,
        out |-> Some(parseAltAttributes(altText))]
  ELSE [fn |-> "parseImageData", alt |-> altText, src |-> src,
        out |-> IF readsSettings(altText, src) /\ s = Undefined THEN Undefined
                ELSE Some(parseImageData(altText, src,
                            IF s = Undefined THEN "" ELSE s[1].captionRegex))]

LoadInit ==
  /\ call = NoCall
  /\ rev \in {1, 2, 3}
  /\ settings = Undefined
  /\ host \in {[render |-> "inline", onload |-> "start", processors |-> {},
                data |-> d] : d \in StoredData}
  /\ dom = <<>>
  /\ tasks = <<>>
  /\ records = <<>>
  /\ settled = <<>>
  /\ steps = 0
  /\ dropped = 0

\* onload to its first await: the registrations that stand before
\* loadSettings, then loadData is awaited
onload ==
  /\ host.onload = "start"
  /\ host' = [host EXCEPT !.onload = "loadData",
                          !.processors = RegisteredEarly(rev)]
  /\ UNCHANGED <<call, rev, settings, dom, tasks, records, settled, steps, dropped>>

\* loadData resolves: line 443 assigns settings and onload runs to its end
loadSettings ==
  /\ host.onload = "loadData"
  /\ settings' = Some(ObjectAssign(DEFAULT_SETTINGS, host.data))
  /\ host' = [host EXCEPT !.onload = "done",
                          !.processors = RegisteredLate(rev)]
  /\ UNCHANGED <<call, rev, dom, tasks, records, settled, steps, dropped>>

\* the host runs the registered post-processor on an element with one image
HostPostProcessor(altText, src) ==
  /\ steps < MaxEvents
  /\ "postProcessor" \in host.processors
  /\ call' = parseCall(rev, altText, src, settings)
  /\ steps' = steps + 1
  /\ UNCHANGED <<rev, settings, host, dom, tasks, records, settled, dropped>>

\* the host runs the registered code block processor on a block of one line
HostCodeBlockProcessor(line) ==
  /\ steps < MaxEvents
  /\ host.processors \cap {"figure-grid-container", "columnGrid"} # {}
  /\ \E match \in {IF rev = 3 THEN splitWikilink(line) ELSE splitGridSyntax(line)} :
       call' = IF match = Undefined \/ ~OccursAt(line, 1, "![[")
               THEN NoCall
               ELSE IF match[1].path \notin VaultFiles THEN NoCall
               ELSE parseCall(rev, match[1].params,
                              getResourcePath(match[1].path), settings)
  /\ steps' = steps + 1
  /\ UNCHANGED <<rev, settings, host, dom, tasks, records, settled, dropped>>

LoadNext ==
  \/ onload
  \/ loadSettings
  \/ \E altText \in ExternalAlts, src \in ExternalSrcs :
       HostPostProcessor(altText, src)
  \/ \E line \in GridLines : HostCodeBlockProcessor(line)

SpecLoad == LoadInit /\ [][LoadNext]_vars

(***************************************************************************)
(* Claims about startup (specification SpecLoad)                           *)
(***************************************************************************)

\* C22: whenever a host call makes parseImageData read
\* settings.captionRegex, settings has been assigned.
C22_SettingsLoadedBeforeRead ==
  [][steps' # steps /\ call'.fn = "parseImageData"
       /\ readsSettings(call'.alt, call'.src)
     => settings # Undefined]_vars

====
